---- MODULE Spec2Model ----
(***************************************************************************)
(* A model of the parameter resolution engine of python-tui:               *)
(*   tui/formats.py   Format.parse / Format.parsestr                       *)
(*   tui/__init__.py  Option, PositionalArgument, tui.parsefiles,          *)
(*                    tui._parseoptions, tui._parsepositionalargs,         *)
(*                    tui.parseargs, tui.launch                            *)
(*                                                                         *)
(* Strings are sequences of one-character strings, so that startswith,     *)
(* slicing, int() and shlex.split are computed on them as the code does.   *)
(* Python values are tagged records: PyInt, PyStr, PyBool, PyList, PyNone. *)
(***************************************************************************)
EXTENDS Integers, Sequences, FiniteSets, TLC

\* ------------------------------------------------------------------ bounds

\* Longest argument list (without the program name) handed to parseargs.
MaxArgv == 2
\* Most "--tag t" pairs in an argument list of the end-to-end shape.
MaxTags == 2
\* Most calls of the public entry points made on one tui object.
MaxCalls == 2

\* ----------------------------------------------------------- python values

PyNone == [t |-> "None"]
PyInt(i) == [t |-> "int", i |-> i]
PyStr(s) == [t |-> "str", s |-> s]
PyBool(b) == [t |-> "bool", b |-> b]
PyList(items) == [t |-> "list", items |-> items]

NoError == [type |-> "none"]
Raise(type, args) == [type |-> type, args |-> args]

\* str.startswith
startswith(s, prefix) ==
    /\ Len(s) >= Len(prefix)
    /\ SubSeq(s, 1, Len(prefix)) = prefix

\* s[n:]
SliceFrom(s, n) == SubSeq(s, n + 1, Len(s))

\* s[:-1]
ButLast(s) == SubSeq(s, 1, Len(s) - 1)

\* ------------------------------------------------------------ formats.py

Digits == {"0", "1", "2", "3", "4", "5", "6", "7", "8", "9"}

DigitValue(c) ==
    CASE c = "0" -> 0 [] c = "1" -> 1 [] c = "2" -> 2 [] c = "3" -> 3
      [] c = "4" -> 4 [] c = "5" -> 5 [] c = "6" -> 6 [] c = "7" -> 7
      [] c = "8" -> 8 [] c = "9" -> 9

RECURSIVE DecimalValue(_)
DecimalValue(s) ==
    IF s = <<>> THEN 0
    ELSE 10 * DecimalValue(ButLast(s)) + DigitValue(s[Len(s)])

AllDigits(s) == s # <<>> /\ \A i \in 1..Len(s) : s[i] \in Digits

\* int(argument): an optional sign and decimal digits, else ValueError.
int(s) ==
    IF AllDigits(s) THEN [ok |-> TRUE, value |-> PyInt(DecimalValue(s))]
    ELSE IF s # <<>> /\ s[1] = "-" /\ AllDigits(Tail(s))
        THEN [ok |-> TRUE, value |-> PyInt(0 - DecimalValue(Tail(s)))]
    ELSE IF s # <<>> /\ s[1] = "+" /\ AllDigits(Tail(s))
        THEN [ok |-> TRUE, value |-> PyInt(DecimalValue(Tail(s)))]
    ELSE [ok |-> FALSE, details |-> "cannot transform it to integer"]

Upper == <<"A", "B", "C", "D", "E", "F", "G", "H", "I", "J", "K", "L", "M",
           "N", "O", "P", "Q", "R", "S", "T", "U", "V", "W", "X", "Y", "Z">>
Lower == <<"a", "b", "c", "d", "e", "f", "g", "h", "i", "j", "k", "l", "m",
           "n", "o", "p", "q", "r", "s", "t", "u", "v", "w", "x", "y", "z">>

\* A lower that leaves the case of every letter as it is.
samecase(s) == s

\* str.lower
lower(s) ==
    [i \in 1..Len(s) |->
        IF \E k \in 1..26 : Upper[k] = s[i]
        THEN Lower[CHOOSE k \in 1..26 : Upper[k] = s[i]]
        ELSE s[i]]

\* str.upper
upper(s) ==
    [i \in 1..Len(s) |->
        IF \E k \in 1..26 : Lower[k] = s[i]
        THEN Upper[CHOOSE k \in 1..26 : Lower[k] = s[i]]
        ELSE s[i]]

\* The Format objects of the model: Format.__init__ stores the short name,
\* the parser, nargs and the accepted specials.
FlagFormat == [name |-> "Flag", nargs |-> 0, parser |-> "flag", specials |-> {}, default |-> PyBool(FALSE)]
IntFormat == [name |-> "Int", nargs |-> 1, parser |-> "int", specials |-> {}, default |-> PyInt(0)]
StringFormat == [name |-> "String", nargs |-> 1, parser |-> "str", specials |-> {}, default |-> PyStr(<<>>)]
\* ReadableFile(acceptedspecials=['-']); the files that exist are Readable.
ReadableFileFormat == [name |-> "ReadableFile", nargs |-> 1, parser |-> "readable", specials |-> {<<"-">>}, default |-> PyNone]
\* Format('IntPair', int, nargs=2, acceptedspecials=['-'])
IntPairFormat == [name |-> "IntPair", nargs |-> 2, parser |-> "int", specials |-> {<<"-">>}, default |-> PyNone]

\* Choice(['a', 'in']): not case sensitive, so the choices are kept in upper
\* case and handed to the parser as a keyword argument.
ChoiceFormat == [name |-> "Choice", nargs |-> 1, parser |-> "choice", specials |-> {}, default |-> PyNone]
choices == {upper(<<"a">>), upper(<<"i", "n">>)}

Readable == {<<"i", "n">>}

\* self.cParser(sValue, ...): the value, or the exception the parser raised.
cParser(format, sValue) ==
    CASE format.parser = "int" -> int(sValue)
      [] format.parser = "str" -> [ok |-> TRUE, value |-> PyStr(sValue)]
      [] format.parser = "readable" ->
            IF sValue \in format.specials \/ sValue \in Readable
            THEN [ok |-> TRUE, value |-> PyStr(sValue)]
            ELSE [ok |-> FALSE, details |-> "No such file or directory"]
      [] format.parser = "flag" -> [ok |-> TRUE, value |-> PyBool(TRUE)]
      [] format.parser = "choice" ->
            IF upper(sValue) \in choices
            THEN [ok |-> TRUE, value |-> PyStr(upper(sValue))]
            ELSE [ok |-> FALSE, details |-> "it's not among the legal choices"]

\* A Format.parse that hands the token back to the list.
ParsedKeepingToken(r, sValue, rest) ==
    IF r.ok
    THEN [err |-> NoError, value |-> r.value, args |-> <<sValue>> \o rest]
    ELSE [err |-> Raise("BadArgument", <<sValue, r.details>>), value |-> PyNone,
          args |-> rest]

\* What Format.parse makes of the parser's answer r for the token sValue:
\* the value, or BadArgumentError when the parser raised.
Parsed(r, sValue, rest) ==
    IF r.ok
    THEN [err |-> NoError, value |-> r.value, args |-> rest]
    ELSE [err |-> Raise("BadArgument", <<sValue, r.details>>), value |-> PyNone,
          args |-> rest]

\* The loop of Format.parse for nargs > 1: pops one token per round; a special
\* is appended and then, with no continue, handed to the parser as well.
RECURSIVE ParseMany(_, _, _, _)
ParseManyNext(format, rest, lxValues, i, r) ==
    IF r.err # NoError THEN r
    ELSE ParseMany(format, rest, Append(lxValues, r.value), i - 1)

ParseMany(format, args, lxValues, i) ==
    IF i = 0 THEN [err |-> NoError, value |-> PyList(lxValues), args |-> args]
    ELSE ParseManyNext(format, Tail(args),
            IF Head(args) \in format.specials
            THEN Append(lxValues, PyStr(Head(args))) ELSE lxValues,
            i, Parsed(cParser(format, Head(args)), Head(args), Tail(args)))

\* Format.parse(args): the raised error (or NoError), the returned value and
\* the args list as the call leaves it.
Format_parse(format, args) ==
    IF Len(args) < format.nargs
    THEN [err |-> Raise("BadNumberOfArguments", <<format.nargs, Len(args)>>),
          value |-> PyNone, args |-> args]
    ELSE IF format.nargs = 0
    THEN [err |-> NoError, value |-> cParser(format, <<>>).value, args |-> args]
    ELSE IF format.nargs = 1
    THEN IF Head(args) \in format.specials
         THEN [err |-> NoError, value |-> PyStr(Head(args)), args |-> Tail(args)]
         ELSE Parsed(cParser(format, Head(args)), Head(args), Tail(args))
    ELSE ParseMany(format, args, <<>>, format.nargs)

\* ------------------------------------------------- presenters, strvalue

\* str(n) for n >= 0: the decimal digits, no sign and no leading zero.
RECURSIVE DecimalString(_)
DecimalString(n) ==
    IF n < 10 THEN <<CHOOSE c \in Digits : DigitValue(c) = n>>
    ELSE Append(DecimalString(n \div 10), CHOOSE c \in Digits : DigitValue(c) = n % 10)

\* str(value)
str(v) ==
    CASE v.t = "int" -> IF v.i < 0 THEN <<"-">> \o DecimalString(0 - v.i)
                        ELSE DecimalString(v.i)
      [] v.t = "str" -> v.s
      [] v.t = "bool" -> IF v.b THEN <<"T", "r", "u", "e">> ELSE <<"F", "a", "l", "s", "e">>
      [] v.t = "None" -> <<"N", "o", "n", "e">>

\* repr(s) of a str: double quotes when s holds a single quote and no double
\* quote, single quotes otherwise, with the quote character and the backslash
\* escaped.
repr(s) ==
    LET q == IF (\E i \in 1..Len(s) : s[i] = "'") /\ ~(\E i \in 1..Len(s) : s[i] = "\"")
             THEN "\"" ELSE "'"
        esc[i \in 0..Len(s)] ==
            IF i = 0 THEN <<>>
            ELSE IF s[i] \in {q, "\\"} THEN esc[i - 1] \o <<"\\", s[i]>>
            ELSE Append(esc[i - 1], s[i])
    IN <<q>> \o esc[Len(s)] \o <<q>>

\* default_presenter(value): str(value), or its repr when it holds whitespace.
default_presenter(v) ==
    IF \E i \in 1..Len(str(v)) : str(v)[i] = " " THEN repr(str(v)) ELSE str(v)

\* self.cPresenter: Choice._presenter for a Choice, default_presenter for the
\* Formats that pass no presenter.
cPresenter(fmt, v) == IF fmt.parser = "choice" THEN str(v) ELSE default_presenter(v)

\* " ".join(map(self.cPresenter, value))
RECURSIVE JoinPresented(_, _)
JoinPresented(fmt, items) ==
    IF items = <<>> THEN <<>>
    ELSE IF Len(items) = 1 THEN cPresenter(fmt, items[1])
    ELSE cPresenter(fmt, items[1]) \o <<" ">> \o JoinPresented(fmt, Tail(items))

\* Format.strvalue(value)
strvalue(fmt, v) ==
    IF fmt.nargs > 1 THEN JoinPresented(fmt, v.items) ELSE cPresenter(fmt, v)

\* ----------------------------------------------------- shlex.split (posix)

\* shlex.shlex.read_token over the whole string, with whitespace_split and
\* commenters = '#': state " " is between tokens, "a" inside a word, a quote
\* character inside a quoted part.  A commenter discards the rest of the
\* line.  Escapes are outside the alphabet of the model.
RECURSIVE ShlexScan(_, _, _, _, _, _)
ShlexScan(s, i, state, token, quoted, out) ==
    LET emit == IF token # <<>> \/ quoted THEN Append(out, token) ELSE out
    IN IF i > Len(s)
       THEN IF state \in {"\"", "'"}
            THEN [ok |-> FALSE, details |-> "No closing quotation"]
            ELSE [ok |-> TRUE, tokens |-> emit]
       ELSE LET c == s[i]
            IN IF state \in {"\"", "'"}
               THEN IF c = state
                    THEN ShlexScan(s, i + 1, "a", token, TRUE, out)
                    ELSE ShlexScan(s, i + 1, state, Append(token, c), TRUE, out)
               ELSE IF c = " "
               THEN ShlexScan(s, i + 1, " ", <<>>, FALSE, emit)
               ELSE IF c = "#"
               THEN [ok |-> TRUE, tokens |-> emit]
               ELSE IF c \in {"\"", "'"}
               THEN ShlexScan(s, i + 1, c, token, quoted, out)
               ELSE ShlexScan(s, i + 1, "a", Append(token, c), quoted, out)

shlex_split(argstr) == ShlexScan(argstr, 1, " ", <<>>, FALSE, <<>>)

\* The body of Format.parsestr after args = shlex.split(argstr, comments=True).
\* The args list is local to parsestr: nothing of it is left to the caller.
Format_parsesplit(format, split) ==
    IF ~split.ok
    THEN [err |-> Raise("ValueError", <<split.details>>), value |-> PyNone, args |-> <<>>]
    ELSE IF Len(split.tokens) = 0
    THEN [err |-> Raise("BadNumberOfArguments", <<1, 0>>), value |-> PyNone, args |-> <<>>]
    ELSE IF format.nargs = 0
    THEN IF lower(Head(split.tokens)) \in
                {<<"1">>, <<"y", "e", "s">>, <<"t", "r", "u", "e">>, <<"o", "n">>}
         THEN [err |-> NoError, value |-> PyBool(TRUE), args |-> <<>>]
         ELSE IF lower(Head(split.tokens)) \in
                {<<"0">>, <<"n", "o">>, <<"f", "a", "l", "s", "e">>, <<"o", "f", "f">>}
         THEN [err |-> NoError, value |-> PyBool(FALSE), args |-> <<>>]
         ELSE [err |-> Raise("BadArgument",
                    <<Head(split.tokens),
                      "Allowed values include 'True' and 'False', among others">>),
               value |-> PyNone, args |-> <<>>]
    ELSE IF Len(split.tokens) # format.nargs
    THEN [err |-> Raise("BadNumberOfArguments", <<format.nargs, Len(split.tokens)>>),
          value |-> PyNone, args |-> <<>>]
    ELSE [Format_parse(format, split.tokens) EXCEPT !.args = <<>>]

\* Format.parsestr(argstr): the raised error (or NoError) and the value.
Format_parsestr(format, argstr) == Format_parsesplit(format, shlex_split(argstr))

\* ------------------------------------------------- tui/__init__.py: Option

\* Option.__init__: an omitted default is format.default, or [] when recurring.
Option(name, format, abbreviation, default, recurring, reserved) ==
    [name |-> name, format |-> format, abbreviation |-> abbreviation,
     value |-> default, recurring |-> recurring, reserved |-> reserved,
     location |-> <<"Builtin default.">>]

\* An Option whose new value always replaces the old one.
Option_replace(option, value, location) ==
    [option EXCEPT
        !.value = IF option.recurring THEN PyList(<<value>>) ELSE value,
        !.location = location]

\* An Option that stores the value and keeps the location it had.
Option_store_unlabelled(option, value, location) ==
    [option EXCEPT
        !.value = IF option.recurring
                  THEN PyList(Append(option.value.items, value))
                  ELSE value]

\* The tail of Option.parse and Option.parsestr: a recurring Option appends
\* the value to its list, any other Option overwrites; location is overwritten.
Option_store(option, value, location) ==
    [option EXCEPT
        !.value = IF option.recurring
                  THEN PyList(Append(option.value.items, value))
                  ELSE value,
        !.location = location]

\* The except clauses of Option.parse and Option.parsestr: the Format's error
\* re-raised under the name the user used.
Option_reraise(e, usedname) ==
    IF e.type = "BadNumberOfArguments"
    THEN Raise("BadNumberOfArguments", <<usedname, e.args[1], e.args[2]>>)
    ELSE IF e.type = "BadArgument"
    THEN Raise("BadArgument", <<e.args[1], usedname, e.args[2]>>)
    ELSE e

\* An Option that notes the location of a parse before it knows whether the
\* Format accepted the input.
Option_finish_marking(option, r, usedname, location) ==
    IF r.err # NoError
    THEN [err |-> Option_reraise(r.err, usedname),
          option |-> [option EXCEPT !.location = location], argv |-> r.args]
    ELSE [err |-> NoError, option |-> Option_store(option, r.value, location),
          argv |-> r.args]

\* What Option.parse and Option.parsestr do with the Format's answer r: store
\* the value, or re-raise the error and leave the Option as it was.
Option_finish(option, r, usedname, location) ==
    IF r.err # NoError
    THEN [err |-> Option_reraise(r.err, usedname), option |-> option, argv |-> r.args]
    ELSE [err |-> NoError, option |-> Option_store(option, r.value, location),
          argv |-> r.args]

\* Option.parse(argv, usedname, location)
Option_parse(option, argv, usedname, location) ==
    Option_finish(option, Format_parse(option.format, argv), usedname, location)

\* Option.parsestr(argsstr, usedname, location)
Option_parsestr(option, argsstr, usedname, location) ==
    Option_finish(option, Format_parsestr(option.format, argsstr), usedname, location)

\* ------------------------------------ tui/__init__.py: PositionalArgument

\* name.upper().replace('-', '_')
displayname(name) ==
    [i \in 1..Len(name) |-> IF name[i] = "-" THEN "_" ELSE upper(name)[i]]

\* PositionalArgument.__init__
PositionalArgument(name, format, recurring, optional) ==
    [name |-> name, format |-> format, recurring |-> recurring,
     optional |-> optional, value |-> PyNone, displayname |-> displayname(name)]

\* The except clauses of PositionalArgument.parse.  The wrong-count clause reads
\* e.given, an attribute the Format's exception does not have (it carries
\* required and supplied), so handling that exception raises AttributeError.
PositionalArgument_reraise(e, posarg) ==
    IF e.type = "BadNumberOfArguments"
    THEN Raise("AttributeError", <<"given">>)
    ELSE IF e.type = "BadArgument"
    THEN Raise("BadArgument", <<e.args[1], posarg.displayname, e.args[2]>>)
    ELSE e

\* A while loop that is left after its first round.
ParseRemainingStop(format, values, r) ==
    IF r.err # NoError
    THEN [err |-> r.err, value |-> PyList(values), argv |-> r.args, assigned |-> TRUE]
    ELSE [err |-> NoError, value |-> PyList(Append(values, r.value)), argv |-> r.args,
          assigned |-> TRUE]

\* The while loop of PositionalArgument.parse for a recurring argument:
\* self.value is the list built so far, also when a later parse raises.
RECURSIVE ParseRemaining(_, _, _)
ParseRemainingNext(format, values, r) ==
    IF r.err # NoError
    THEN [err |-> r.err, value |-> PyList(values), argv |-> r.args, assigned |-> TRUE]
    ELSE ParseRemaining(format, r.args, Append(values, r.value))

ParseRemaining(format, argv, values) ==
    IF argv = <<>>
    THEN [err |-> NoError, value |-> PyList(values), argv |-> argv, assigned |-> TRUE]
    ELSE ParseRemainingNext(format, values, Format_parse(format, argv))

\* A try block that parses once and never enters the while loop.
ParseFirstOnly(posarg, r) ==
    IF r.err # NoError
    THEN [err |-> r.err, value |-> PyNone, argv |-> r.args, assigned |-> FALSE]
    ELSE [err |-> NoError,
          value |-> IF posarg.recurring THEN PyList(<<r.value>>) ELSE r.value,
          argv |-> r.args, assigned |-> TRUE]

\* The try block of PositionalArgument.parse after the first format.parse
\* answered r: assigned tells whether self.value was assigned.
ParseFirst(posarg, r) ==
    IF r.err # NoError
    THEN [err |-> r.err, value |-> PyNone, argv |-> r.args, assigned |-> FALSE]
    ELSE IF ~posarg.recurring
    THEN [err |-> NoError, value |-> r.value, argv |-> r.args, assigned |-> TRUE]
    ELSE ParseRemaining(posarg.format, r.args, <<r.value>>)

PositionalArgument_finish(posarg, m) ==
    [err |-> IF m.err = NoError THEN NoError ELSE PositionalArgument_reraise(m.err, posarg),
     argv |-> m.argv,
     posarg |-> IF m.assigned THEN [posarg EXCEPT !.value = m.value] ELSE posarg]

\* A PositionalArgument.parse that parses also when argv is empty.
PositionalArgument_parse_always(posarg, argv) ==
    PositionalArgument_finish(posarg, ParseFirst(posarg, Format_parse(posarg.format, argv)))

\* PositionalArgument.parse(argv)
PositionalArgument_parse(posarg, argv) ==
    IF argv = <<>> /\ posarg.optional
    THEN [err |-> NoError, argv |-> argv,
          posarg |-> [posarg EXCEPT !.value = IF posarg.recurring THEN PyList(<<>>) ELSE PyNone]]
    ELSE PositionalArgument_finish(posarg, ParseFirst(posarg, Format_parse(posarg.format, argv)))

\* ------------------------------------------------------ StrictConfigParser

\* The files on disk, as ConfigParser reads them: the [DEFAULT] keys and the
\* keys of each named section, every value as its raw text.
k_verbosity == <<"v", "e", "r", "b", "o", "s", "i", "t", "y">>
k_tag == <<"t", "a", "g">>
k_quiet == <<"q", "u", "i", "e", "t">>
k_help == <<"h", "e", "l", "p">>
k_HELP == <<"H", "E", "L", "P">>
k_version == <<"v", "e", "r", "s", "i", "o", "n">>
k_settings == <<"s", "e", "t", "t", "i", "n", "g", "s">>
k_server == <<"s", "e", "r", "v", "e", "r">>
k_squeegee == <<"s", "q", "u", "e", "e", "g", "e", "e">>
k_nope == <<"n", "o", "p", "e">>
k_infile == <<"i", "n", "f", "i", "l", "e">>
k_outfile == <<"o", "u", "t", "f", "i", "l", "e">>

NoKeys == [k \in {} |-> <<>>]
NoSections == [x \in {} |-> NoKeys]

Disk ==
    [f \in {"myprog.conf", "plain.conf", "nope.conf", "help.conf", "ref.conf",
             "default.conf"} |->
        CASE f = "myprog.conf" ->
                [defaults |-> [k \in {k_server} |-> <<"s">>],
                 sections |-> [x \in {"myprog", "extra"} |->
                    IF x = "myprog"
                    THEN [k \in {k_verbosity, k_tag} |->
                            IF k = k_verbosity THEN <<"5">>
                            ELSE <<"%", "(", "s", "e", "r", "v", "e", "r", ")", "s", "/", "x">>]
                    ELSE [k \in {k_tag} |-> <<"y">>]]]
          [] f = "plain.conf" ->
                [defaults |-> [k \in {k_squeegee} |-> <<"m", "o", "o">>],
                 sections |-> [x \in {"myprog"} |-> NoKeys]]
          [] f = "nope.conf" ->
                [defaults |-> NoKeys,
                 sections |-> [x \in {"extra"} |-> [k \in {k_nope} |-> <<"1">>]]]
          [] f = "help.conf" ->
                [defaults |-> NoKeys,
                 sections |-> [x \in {"myprog"} |-> [k \in {k_help} |-> <<"y", "e", "s">>]]]
          [] f = "ref.conf" ->
                [defaults |-> NoKeys,
                 sections |-> [x \in {"myprog"} |->
                    [k \in {k_verbosity, k_squeegee} |->
                        IF k = k_verbosity THEN <<"5">>
                        ELSE <<"%", "(">> \o k_verbosity \o <<")", "s">>]]]
          [] f = "default.conf" ->
                [defaults |-> [k \in {k_verbosity} |-> <<"7">>],
                 sections |-> NoSections]]

\* parser = StrictConfigParser(); parser.read(file): a file that is missing
\* is skipped and leaves the parser empty.
parser_read(file) ==
    IF file \in DOMAIN Disk THEN Disk[file]
    ELSE [defaults |-> NoKeys, sections |-> NoSections]

\* RawConfigParser.has_section: never true of DEFAULT.
has_section(parser, section) == section \in DOMAIN parser.sections

\* RawConfigParser.options(section): the section's keys and the defaults'.
parser_options(parser, section) ==
    DOMAIN parser.sections[section] \cup DOMAIN parser.defaults

\* parser.get(section, option, raw=True): the section's value wins.
parser_get_raw(parser, section, option) ==
    IF option \in DOMAIN parser.sections[section]
    THEN parser.sections[section][option]
    ELSE parser.defaults[option]

\* formatter in raw_value
Contains(s, sub) ==
    \E i \in 0..(Len(s) - Len(sub)) : SubSeq(s, i + 1, i + Len(sub)) = sub

\* StrictConfigParser.unusedoptions(section)
unusedoptions(parser, section) ==
    {option \in parser_options(parser, section) :
        ~\E other \in parser_options(parser, section) :
            Contains(parser_get_raw(parser, section, other),
                     <<"%", "(">> \o option \o <<")", "s">>)}

\* The position of the first ")" of s at or after i, 0 when there is none.
RECURSIVE FindClose(_, _)
FindClose(s, i) ==
    IF i > Len(s) THEN 0 ELSE IF s[i] = ")" THEN i ELSE FindClose(s, i + 1)

\* SafeConfigParser._interpolate_some: "%%" is a percent sign, "%(name)s" the
\* interpolated value of name in the section; anything else after "%", a
\* missing name or a nesting deeper than depth is an interpolation error.
RECURSIVE Interpolate(_, _, _, _, _)
Interpolate(parser, section, s, i, depth) ==
    IF depth = 0 THEN [ok |-> FALSE, value |-> <<>>]
    ELSE IF i > Len(s) THEN [ok |-> TRUE, value |-> <<>>]
    ELSE IF s[i] # "%"
    THEN LET r == Interpolate(parser, section, s, i + 1, depth)
         IN [ok |-> r.ok, value |-> <<s[i]>> \o r.value]
    ELSE IF i + 1 <= Len(s) /\ s[i + 1] = "%"
    THEN LET r == Interpolate(parser, section, s, i + 2, depth)
         IN [ok |-> r.ok, value |-> <<"%">> \o r.value]
    ELSE IF i + 1 <= Len(s) /\ s[i + 1] = "(" /\ FindClose(s, i + 2) # 0
            /\ FindClose(s, i + 2) + 1 <= Len(s) /\ s[FindClose(s, i + 2) + 1] = "s"
    THEN LET close == FindClose(s, i + 2)
             name == SubSeq(s, i + 2, close - 1)
         IN IF name \notin parser_options(parser, section)
            THEN [ok |-> FALSE, value |-> <<>>]
            ELSE LET v == Interpolate(parser, section,
                                      parser_get_raw(parser, section, name), 1, depth - 1)
                     r == Interpolate(parser, section, s, close + 2, depth)
                 IN [ok |-> v.ok /\ r.ok, value |-> v.value \o r.value]
    ELSE [ok |-> FALSE, value |-> <<>>]

\* parser.get(section, name), with ConfigParser's interpolation depth of 10.
parser_get(parser, section, name) ==
    Interpolate(parser, section, parser_get_raw(parser, section, name), 1, 10)

\* ----------------------------------------------------- tui/__init__.py: tui

VARIABLES
    options,          \* self.options: name -> Option
    abbreviations,    \* self.abbreviations: abbreviation -> name of its Option
    positional_args,  \* self.positional_args
    option_order,     \* self.option_order: the names in the order the help shows them
    configfiles,      \* self.configfiles
    ignore,           \* self.ignore
    pc,               \* where the entry point in progress stands
    op,               \* the entry point in progress
    argv0,            \* the argument list as the caller gave it
    argv,             \* the argument list being consumed
    observed,         \* _parseoptions: the non-recurring options seen so far
    posidx,           \* _parsepositionalargs: the next positional argument
    pairs,            \* parsefiles: the (file, section) pairs still to read
    err,              \* the exception raised, NoError when none
    exited,           \* what launch printed before sys.exit, "" when it did not
    ncalls,           \* entry points called so far
    format,           \* the Format whose parse or parsestr is called directly
    value,            \* what that call returned
    argstr            \* the string handed to parsestr

vars == <<options, abbreviations, positional_args, option_order, configfiles, ignore, pc, op, argv0,
          argv, observed, posidx, pairs, err, exited, ncalls, format, value,
          argstr>>

\* self.sections, as given to the constructor.
sections == <<"myprog", "extra">>

\* _list(value): None is the empty list, a list is itself and anything else a
\* list of one item; the model keeps the items as a set.
_list(v) ==
    IF v = PyNone THEN {}
    ELSE IF v.t = "list" THEN {v.items[i] : i \in 1..Len(v.items)}
    ELSE {v}

ParseErrors == {"BadArgument", "BadNumberOfArguments", "InvalidOption",
                "OptionRecurrenceError", "ReservedOptionError", "BadAbbreviationBlock"}

\* The module-level help_option, longhelp_option, version_option and
\* settings_option that tui.__init__ registers by default.
help_option == Option(k_help, FlagFormat, "h", PyBool(FALSE), FALSE, TRUE)
longhelp_option == Option(k_HELP, FlagFormat, "", PyBool(FALSE), FALSE, TRUE)
version_option == Option(k_version, FlagFormat, "V", PyBool(FALSE), FALSE, TRUE)
settings_option == Option(k_settings, FlagFormat, "", PyBool(FALSE), FALSE, TRUE)

\* An addoption that registers the option first and looks for clashes after.
addoption_eager(reg, option) ==
    [err |-> IF option.name \in DOMAIN reg.options
             THEN Raise("ValueError", <<"name already in use">>)
             ELSE IF option.abbreviation \in DOMAIN reg.abbreviations
             THEN Raise("ValueError", <<"abbreviation already in use">>)
             ELSE IF \E i \in 1..Len(reg.positional_args) :
                        reg.positional_args[i].name = option.name
             THEN Raise("ValueError", <<"name already in use by a positional argument">>)
             ELSE NoError,
     reg |-> [reg EXCEPT
        !.options = [n \in DOMAIN reg.options \cup {option.name} |->
                        IF n = option.name THEN option ELSE reg.options[n]],
        !.abbreviations =
            IF option.abbreviation # ""
            THEN [a \in DOMAIN reg.abbreviations \cup {option.abbreviation} |->
                    IF a = option.abbreviation THEN option.name
                    ELSE reg.abbreviations[a]]
            ELSE reg.abbreviations,
        !.option_order = Append(reg.option_order, option.name)]]

\* tui.addoption(option) on a registry: the error raised and the registry after.
addoption(reg, option) ==
    IF option.name \in DOMAIN reg.options
    THEN [err |-> Raise("ValueError", <<"name already in use">>), reg |-> reg]
    ELSE IF option.abbreviation \in DOMAIN reg.abbreviations
    THEN [err |-> Raise("ValueError", <<"abbreviation already in use">>), reg |-> reg]
    ELSE IF \E i \in 1..Len(reg.positional_args) : reg.positional_args[i].name = option.name
    THEN [err |-> Raise("ValueError", <<"name already in use by a positional argument">>),
          reg |-> reg]
    ELSE [err |-> NoError,
          reg |-> [reg EXCEPT
            !.options = [n \in DOMAIN reg.options \cup {option.name} |->
                            IF n = option.name THEN option ELSE reg.options[n]],
            !.abbreviations =
                IF option.abbreviation # ""
                THEN [a \in DOMAIN reg.abbreviations \cup {option.abbreviation} |->
                        IF a = option.abbreviation THEN option.name
                        ELSE reg.abbreviations[a]]
                ELSE reg.abbreviations,
            !.option_order = Append(reg.option_order, option.name)]]

\* An addposarg that appends whatever it is given.
addposarg_unchecked(reg, posarg) ==
    [err |-> NoError,
     reg |-> [reg EXCEPT !.positional_args = Append(reg.positional_args, posarg)]]

\* tui.addposarg(posarg)
addposarg(reg, posarg) ==
    LET n == Len(reg.positional_args)
    IN IF n > 0 /\ reg.positional_args[n].recurring
       THEN [err |-> Raise("ValueError", <<"recurring positional arguments must be last">>),
             reg |-> reg]
       ELSE IF n > 0 /\ reg.positional_args[n].optional /\ ~posarg.optional
       THEN [err |-> Raise("ValueError",
                <<"required positional arguments must precede optional ones">>),
             reg |-> reg]
       ELSE [err |-> NoError,
             reg |-> [reg EXCEPT !.positional_args = Append(reg.positional_args, posarg)]]

\* tui.__init__ with default arguments: no options, abbreviations or
\* positional arguments given, the four basic options added in the order
\* help, longhelp, settings, version.
EmptyRegistry ==
    [options |-> [n \in {} |-> help_option],
     abbreviations |-> [a \in {} |-> <<>>],
     positional_args |-> <<>>,
     option_order |-> <<>>]

tui_init ==
    addoption(addoption(addoption(addoption(EmptyRegistry,
        help_option).reg, longhelp_option).reg, settings_option).reg, version_option).reg

\* The user interface of the model, built as the QUICKSTART builds it:
\*   ui.makeoption('quiet', 'Flag', 'q')
\*   ui.makeoption('verbosity', 'Int', 'v', default=10)
\*   ui.makeoption('tag', 'String', recurring=True)
\*   ui.makeposarg('infile', 'String')
\*   ui.makeposarg('outfile', 'String', optional=True)
ExampleRegistry ==
    addposarg(addposarg(addoption(addoption(addoption(tui_init,
        Option(k_quiet, FlagFormat, "q", FlagFormat.default, FALSE, FALSE)).reg,
        Option(k_verbosity, IntFormat, "v", PyInt(10), FALSE, FALSE)).reg,
        Option(k_tag, StringFormat, "", PyList(<<>>), TRUE, FALSE)).reg,
        PositionalArgument(k_infile, StringFormat, FALSE, FALSE)).reg,
        PositionalArgument(k_outfile, StringFormat, FALSE, TRUE)).reg

\* -------------------------------------------------------- tui._parseoptions

\* observed = [] at the start of _parseoptions.
NewObserved == <<>>

\* An Option counts as seen also when anything but its default set it.
SeenOrSet(option, seen) ==
    \/ \E i \in 1..Len(seen) : seen[i] = option.name
    \/ option.location # <<"Builtin default.">>

\* option in observed
AlreadyObserved(option, seen) == \E i \in 1..Len(seen) : seen[i] = option.name

\* A validation that holds the last character to the rule as well.
RECURSIVE ValidateWholeBlock(_, _, _, _)
ValidateWholeBlock(opts, abbrs, block, i) ==
    IF i > Len(block) THEN NoError
    ELSE IF block[i] \notin DOMAIN abbrs THEN Raise("KeyError", <<block[i]>>)
    ELSE IF opts[abbrs[block[i]]].format.nargs # 0
    THEN Raise("BadAbbreviationBlock",
               <<block[i], block,
                 "options that require value arguments must be last in abbreviation blocks">>)
    ELSE ValidateWholeBlock(opts, abbrs, block, i + 1)

\* The first loop over an abbreviation block: for abbreviation in block[:-1].
\* self.abbreviations[abbreviation] raises KeyError for an unregistered one.
RECURSIVE ValidateBlock(_, _, _, _)
ValidateBlock(opts, abbrs, block, i) ==
    IF i > Len(ButLast(block)) THEN NoError
    ELSE IF block[i] \notin DOMAIN abbrs THEN Raise("KeyError", <<block[i]>>)
    ELSE IF opts[abbrs[block[i]]].format.nargs # 0
    THEN Raise("BadAbbreviationBlock",
               <<block[i], block,
                 "options that require value arguments must be last in abbreviation blocks">>)
    ELSE ValidateBlock(opts, abbrs, block, i + 1)

\* The locals of _parseoptions and what it has done to self.options.
Locals(opts, seen, args, e, brk) ==
    [options |-> opts, observed |-> seen, argv |-> args, err |-> e, brk |-> brk]

\* An option.parse whose tokens stay in the caller's list.
Observe_keeping(st, option, r) ==
    Locals([st.options EXCEPT ![option.name] = r.option],
           IF option.recurring THEN st.observed ELSE Append(st.observed, option.name),
           st.argv, r.err, FALSE)

\* observed.append(option) and option.parse(argv, usedname, location) answering r.
Observe(st, option, r) ==
    Locals([st.options EXCEPT ![option.name] = r.option],
           IF option.recurring THEN st.observed ELSE Append(st.observed, option.name),
           r.argv, r.err, FALSE)

\* One option, named in full or by its abbreviation: a non-recurring Option
\* that is in observed raises OptionRecurrenceError, else it is noted and parsed.
ParseOption(st, option, usedname, location) ==
    IF ~option.recurring /\ AlreadyObserved(option, st.observed)
    THEN [st EXCEPT !.err = Raise("OptionRecurrenceError", <<option.name>>)]
    ELSE Observe(st, option, Option_parse(option, st.argv, usedname, location))

\* The second loop over an abbreviation block: for abbreviation in block.
RECURSIVE ParseBlock(_, _, _, _, _)
ParseBlock(st, abbrs, block, i, location) ==
    IF i > Len(block) \/ st.err # NoError THEN st
    ELSE IF block[i] \notin DOMAIN abbrs
    THEN [st EXCEPT !.err = Raise("KeyError", <<block[i]>>)]
    ELSE ParseBlock(ParseOption(st, st.options[abbrs[block[i]]], <<"-", block[i]>>, location),
                    abbrs, block, i + 1, location)

\* An abbreviation block parsed without the validation loop.
UnvalidatedBlock(st, abbrs, block, location) == ParseBlock(st, abbrs, block, 1, location)

\* An abbreviation block, popped from argv: validated, then parsed.
AbbreviationBlock(st, abbrs, block, location) ==
    IF ValidateBlock(st.options, abbrs, block, 1) # NoError
    THEN [st EXCEPT !.err = ValidateBlock(st.options, abbrs, block, 1)]
    ELSE ParseBlock(st, abbrs, block, 1, location)

\* A "--" that is left in argv.
EndOfOptionsKept(opts, seen, args) == Locals(opts, seen, args, NoError, TRUE)

\* A first positional token that is popped.
FirstPositionalPopped(opts, seen, args) == Locals(opts, seen, Tail(args), NoError, TRUE)

\* "--": popped, then break.
EndOfOptions(opts, seen, args) == Locals(opts, seen, Tail(args), NoError, TRUE)

\* "-" or a token that does not start with "-": break, nothing popped.
FirstPositional(opts, seen, args) == Locals(opts, seen, args, NoError, TRUE)

\* One round of the while loop of _parseoptions on a non-empty argv: the
\* options, observed and argv it leaves, the error it raises and whether it
\* breaks out of the loop.
parseoptions_round(opts, abbrs, seen, args, location) ==
    IF startswith(args[1], <<"-", "-">>)
    THEN IF SliceFrom(args[1], 2) = <<>>
         THEN EndOfOptions(opts, seen, args)
         ELSE IF SliceFrom(args[1], 2) \notin DOMAIN opts
         THEN Locals(opts, seen, Tail(args),
                     Raise("InvalidOption", <<SliceFrom(args[1], 2)>>), FALSE)
         ELSE ParseOption(Locals(opts, seen, Tail(args), NoError, FALSE),
                          opts[SliceFrom(args[1], 2)], SliceFrom(args[1], 2), location)
    ELSE IF startswith(args[1], <<"-">>)
    THEN IF args[1] = <<"-">>
         THEN FirstPositional(opts, seen, args)
         ELSE AbbreviationBlock(Locals(opts, seen, Tail(args), NoError, FALSE), abbrs,
                                SliceFrom(args[1], 1), location)
    ELSE FirstPositional(opts, seen, args)

\* -------------------------------------------------- tui._parsepositionalargs

\* The check after the loop of _parsepositionalargs, on a non-empty argv.
\* No Format of formats.py has nargs None, so the first message is chosen
\* only by a format that sets it so.
TooManyArguments(posargs, args) ==
    IF \E i \in 1..Len(posargs) : posargs[i].format.nargs = -1
    THEN Raise("BadNumberOfArguments", <<"too many arguments given", Len(args)>>)
    ELSE Raise("BadNumberOfArguments",
               <<"This program accepts exactly %s positional arguments (%s given).",
                 Len(posargs), Len(posargs) + Len(args)>>)

\* ------------------------------------------------------------ tui.parsefiles

\* self.options[name].reserved(): reserved is the bool Option.__init__ stored,
\* and calling a bool raises TypeError.
reserved_call(option) ==
    [err |-> Raise("TypeError", <<"'bool' object is not callable">>),
     value |-> option.reserved]

\* '%r [%s]' % (file, section)
FileLocation(file, section) == <<file, section>>

\* for file in files: for section in sections
FileSectionPairs(files, secs) ==
    [k \in 1..(Len(files) * Len(secs)) |->
        <<files[((k - 1) \div Len(secs)) + 1], secs[((k - 1) % Len(secs)) + 1]>>]

\* A set as a sequence, in the order the dict hands its keys out.
RECURSIVE KeyOrder(_)
KeyOrder(S) ==
    IF S = {} THEN <<>>
    ELSE LET k == CHOOSE x \in S : TRUE IN <<k>> \o KeyOrder(S \ {k})

\* The body of "if name in self.options": the reserved() call, then
\* parser.get and Option.parsestr.
ApplyKey(opts, parser, file, section, name) ==
    IF reserved_call(opts[name]).err # NoError
    THEN [err |-> reserved_call(opts[name]).err, options |-> opts]
    ELSE IF reserved_call(opts[name]).value
    THEN [err |-> Raise("ReservedOptionError", <<file, section>>), options |-> opts]
    ELSE IF ~parser_get(parser, section, name).ok
    THEN [err |-> Raise("InterpolationError", <<name>>), options |-> opts]
    ELSE [err |-> Option_parsestr(opts[name], parser_get(parser, section, name).value,
                                  name, FileLocation(file, section)).err,
          options |-> [opts EXCEPT ![name] =
                        Option_parsestr(opts[name], parser_get(parser, section, name).value,
                                        name, FileLocation(file, section)).option]]

\* for name in parser.options(section), from the i-th key on.
RECURSIVE ApplySection(_, _, _, _, _, _)
ApplySection(st, parser, file, section, names, i) ==
    IF i > Len(names) \/ st.err # NoError THEN st
    ELSE IF names[i] \notin DOMAIN st.options
    THEN ApplySection(st, parser, file, section, names, i + 1)
    ELSE ApplySection(ApplyKey(st.options, parser, file, section, names[i]),
                      parser, file, section, names, i + 1)

\* The unused keys of a section that name no Option and are not ignored: any
\* of them is the one the InvalidOption error names.
UnknownKeys(opts, parser, section) ==
    {unused \in unusedoptions(parser, section) :
        unused \notin DOMAIN opts /\ unused \notin ignore}

\* ------------------------------------------------------------------ inputs

t_prog == <<"m", "y", "p", "r", "o", "g">>
t_end == <<"-", "-">>
t_dash == <<"-">>
t_tag == <<"-", "-">> \o k_tag
t_quiet == <<"-", "-">> \o k_quiet
t_nope == <<"-", "-">> \o k_nope
t_q == <<"-", "q">>
t_v == <<"-", "v">>
t_qv == <<"-", "q", "v">>
t_vq == <<"-", "v", "q">>
t_qx == <<"-", "q", "x">>
t_qvq == <<"-", "q", "v", "q">>
t_5 == <<"5">>
t_12 == <<"1", "2">>
t_in == <<"i", "n">>
t_a == <<"a">>
t_b == <<"b">>

Tokens == {t_end, t_dash, t_tag, t_quiet, t_nope, t_q, t_qv, t_vq, t_qvq, t_qx, t_5, t_in}

\* Every argument list of at most MaxArgv tokens.
ShortArgvs == UNION {[1..n -> Tokens] : n \in 0..MaxArgv}

\* k pairs "--tag t".
RECURSIVE TagPairs(_)
TagPairs(k) ==
    IF k = 0 THEN {<<>>}
    ELSE {<<t_tag, t>> \o rest : t \in {t_a, t_b}, rest \in TagPairs(k - 1)}

\* The end-to-end shape: -v n, then --tag t pairs, then one file token.
EndToEndArgvs ==
    {<<t_v, n>> \o tags \o <<f>> :
        n \in {t_5, t_12},
        tags \in UNION {TagPairs(k) : k \in 0..MaxTags},
        f \in {t_in, t_dash}}

\* The basic options as the documentation writes them, short and long.
t_h == <<"-", "h">>
t_H == <<"-", "H">>
t_V == <<"-", "V">>
t_S == <<"-", "S">>
BasicArgvs ==
    {<<t>> : t \in {t_h, t_H, t_V, t_S}} \cup
    {<<<<"-", "-">> \o n>> : n \in {k_help, k_HELP, k_version, k_settings}}

\* A basic option before an unknown option, and two basic options.
HelpErrorArgvs == {<<t_h, t_nope>>, <<t_V, t_nope>>, <<t_V, t_h>>}

\* sys.argv: the program name and the arguments.
ArgvInputs ==
    {<<t_prog>> \o a : a \in ShortArgvs \cup EndToEndArgvs \cup BasicArgvs \cup HelpErrorArgvs}

Paths == DOMAIN Disk \cup {"missing.conf"}
FilesInputs == {<<f>> : f \in Paths} \cup {<<"plain.conf", f>> : f \in Paths}
SectionsInputs == {<<"myprog">>, sections}
ConfigfilesInputs == {<<"plain.conf">>, <<"myprog.conf">>}
\* The ignore argument of the constructor: a list of names, or None.
IgnoreInputs == {PyList(<<k_squeegee>>), PyNone}

\* Config-file values handed to Option.parsestr.
StrInputs == {<<"5">>, <<"x">>, <<"y", " ", "#", "z">>, <<"Y", "e", "s">>}

\* ----------------------------------------------------------------- actions

\* A launch that goes on to the command line whatever was raised before.
ResumePc(e) == IF op = "launch" THEN "options" ELSE "raised"

\* Where an exception raised inside an entry point lands: launch catches a
\* ParseError and goes on to its help checks, anything else propagates.
RaisedPc(e) == IF op = "launch" /\ e.type \in ParseErrors THEN "checkhelp" ELSE "raised"

registry == <<options, abbreviations, positional_args, option_order, configfiles, ignore>>
direct == <<format, value, argstr>>

\* ui.parseargs(argv): argv.pop(0), then _parseoptions.
parseargs(a) ==
    /\ pc = "idle" /\ ncalls < MaxCalls
    /\ op' = "parseargs" /\ argv0' = a /\ argv' = Tail(a)
    /\ observed' = NewObserved /\ pc' = "options"
    /\ ncalls' = ncalls + 1
    /\ UNCHANGED <<registry, posidx, pairs, err, exited>>
    /\ UNCHANGED direct

\* ui.launch(argv): parsefiles() first.
launch(a) ==
    /\ pc = "idle" /\ ncalls < MaxCalls
    /\ op' = "launch" /\ argv0' = a
    /\ pairs' = FileSectionPairs(configfiles, sections) /\ pc' = "files"
    /\ ncalls' = ncalls + 1
    /\ UNCHANGED <<registry, argv, observed, posidx, err, exited>>
    /\ UNCHANGED direct

\* ui.parsefiles(files, sections)
parsefiles(files, secs) ==
    /\ pc = "idle" /\ ncalls < MaxCalls
    /\ op' = "parsefiles"
    /\ pairs' = FileSectionPairs(files, secs) /\ pc' = "files"
    /\ ncalls' = ncalls + 1
    /\ UNCHANGED <<registry, argv0, argv, observed, posidx, err, exited>>
    /\ UNCHANGED direct

\* ui.options[name].parsestr(argsstr, name, location), called directly.
parsestr(name, argsstr, location) ==
    /\ pc = "idle" /\ ncalls < MaxCalls
    /\ \E r \in {Option_parsestr(options[name], argsstr, name, location)} :
          /\ options' = [options EXCEPT ![name] = r.option]
          /\ err' = r.err
          /\ pc' = IF r.err # NoError THEN "raised" ELSE "returned"
    /\ op' = "parsestr"
    /\ ncalls' = ncalls + 1
    /\ UNCHANGED <<abbreviations, positional_args, option_order, configfiles, ignore, argv0, argv,
                   observed, posidx, pairs, exited>>
    /\ UNCHANGED direct

\* A (file, section) pair whose keys are applied before the unknown keys
\* are looked for.
ReadSection_applying(opts, parser, file, section, unused) ==
    IF ~has_section(parser, section)
    THEN [err |-> NoError, options |-> opts]
    ELSE IF ApplySection([err |-> NoError, options |-> opts], parser, file, section,
                         KeyOrder(parser_options(parser, section)), 1).err # NoError
            \/ unused = <<>>
    THEN ApplySection([err |-> NoError, options |-> opts], parser, file, section,
                      KeyOrder(parser_options(parser, section)), 1)
    ELSE [err |-> Raise("InvalidOption", <<unused, section, file>>),
          options |-> ApplySection([err |-> NoError, options |-> opts], parser, file,
                                   section, KeyOrder(parser_options(parser, section)),
                                   1).options]

\* What one (file, section) pair does: nothing when the file has no such
\* section, InvalidOption for the unknown key unused (<<>> when there is
\* none), else the keys of the section applied in turn.
ReadSection(opts, parser, file, section, unused) ==
    IF ~has_section(parser, section)
    THEN [err |-> NoError, options |-> opts]
    ELSE IF unused # <<>>
    THEN [err |-> Raise("InvalidOption", <<unused, section, file>>), options |-> opts]
    ELSE ApplySection([err |-> NoError, options |-> opts], parser, file, section,
                      KeyOrder(parser_options(parser, section)), 1)

\* The unknown keys the first loop of a (file, section) pair can meet.
Unknown(opts, parser, section) ==
    IF has_section(parser, section) THEN UnknownKeys(opts, parser, section) ELSE {}

\* One (file, section) pair of parsefiles.
parsefiles_section ==
    /\ pc = "files" /\ pairs # <<>>
    /\ \E unused \in Unknown(options, parser_read(pairs[1][1]), pairs[1][2]) \cup {<<>>} :
          /\ (unused = <<>>) <=> (Unknown(options, parser_read(pairs[1][1]), pairs[1][2]) = {})
          /\ \E r \in {ReadSection(options, parser_read(pairs[1][1]), pairs[1][1],
                                   pairs[1][2], unused)} :
                /\ options' = r.options
                /\ err' = r.err
                /\ pc' = IF r.err # NoError THEN RaisedPc(r.err) ELSE "files"
                /\ pairs' = IF r.err # NoError THEN pairs ELSE Tail(pairs)
    /\ UNCHANGED <<abbreviations, positional_args, option_order, configfiles, ignore, op, argv0, argv,
                   observed, posidx, exited, ncalls>>
    /\ UNCHANGED direct

\* parsefiles returns; inside launch, parseargs(argv) follows.
parsefiles_end ==
    /\ pc = "files" /\ pairs = <<>>
    /\ pc' = IF op = "launch" THEN "options" ELSE "returned"
    /\ argv' = IF op = "launch" THEN Tail(argv0) ELSE argv
    /\ observed' = IF op = "launch" THEN NewObserved ELSE observed
    /\ UNCHANGED <<registry, op, argv0, posidx, pairs, err, exited, ncalls>>
    /\ UNCHANGED direct

\* One round of the while loop of _parseoptions, or its end on an empty argv.
parseoptions ==
    /\ pc = "options"
    /\ \E r \in {IF argv = <<>>
                 THEN Locals(options, observed, argv, NoError, TRUE)
                 ELSE parseoptions_round(options, abbreviations, observed, argv,
                                         <<"Command line.">>)} :
          /\ options' = r.options
          /\ observed' = r.observed
          /\ argv' = r.argv
          /\ err' = r.err
          /\ pc' = IF r.err # NoError THEN RaisedPc(r.err)
                   ELSE IF r.brk THEN "positional" ELSE "options"
          /\ posidx' = IF r.err = NoError /\ r.brk THEN 1 ELSE posidx
    /\ UNCHANGED <<abbreviations, positional_args, option_order, configfiles, ignore, op, argv0, pairs,
                   exited, ncalls>>
    /\ UNCHANGED direct

\* One round of the for loop of _parsepositionalargs.
parsepositionalargs ==
    /\ pc = "positional" /\ posidx <= Len(positional_args)
    /\ \E r \in {PositionalArgument_parse(positional_args[posidx], argv)} :
          /\ positional_args' = [positional_args EXCEPT ![posidx] = r.posarg]
          /\ argv' = r.argv
          /\ err' = r.err
          /\ pc' = IF r.err # NoError THEN RaisedPc(r.err) ELSE "positional"
          /\ posidx' = IF r.err # NoError THEN posidx ELSE posidx + 1
    /\ UNCHANGED <<options, abbreviations, option_order, configfiles, ignore, op, argv0, observed, pairs,
                   exited, ncalls>>
    /\ UNCHANGED direct

\* The check after the loop of _parsepositionalargs, and the return of parseargs.
parsepositionalargs_end ==
    /\ pc = "positional" /\ posidx > Len(positional_args)
    /\ err' = IF argv # <<>> THEN TooManyArguments(positional_args, argv) ELSE NoError
    /\ pc' = IF argv # <<>> THEN RaisedPc(TooManyArguments(positional_args, argv))
             ELSE IF op = "launch" THEN "checkhelp" ELSE "returned"
    /\ UNCHANGED <<registry, op, argv0, argv, observed, posidx, pairs, exited, ncalls>>
    /\ UNCHANGED direct

\* self[name]: is the basic option set?
BasicOptionSet(name) == name \in DOMAIN options /\ options[name].value = PyBool(TRUE)

\* An end of launch that reports a caught ParseError before it looks at the
\* basic options.
launch_end_reporting ==
    /\ pc = "checkhelp"
    /\ exited' = IF err # NoError THEN "error"
                 ELSE IF BasicOptionSet(k_help) THEN "help"
                 ELSE IF BasicOptionSet(k_HELP) THEN "longhelp"
                 ELSE IF BasicOptionSet(k_settings) THEN "settings"
                 ELSE IF BasicOptionSet(k_version) THEN "version"
                 ELSE ""
    /\ pc' = IF exited' = "" THEN "returned" ELSE "exit"
    /\ UNCHANGED <<registry, op, argv0, argv, observed, posidx, pairs, err, ncalls>>
    /\ UNCHANGED direct

\* The end of launch: the first of help, longhelp, settings, version that is
\* set prints its page and exits; else a caught ParseError exits gracefully.
launch_end ==
    /\ pc = "checkhelp"
    /\ exited' = IF BasicOptionSet(k_help) THEN "help"
                 ELSE IF BasicOptionSet(k_HELP) THEN "longhelp"
                 ELSE IF BasicOptionSet(k_settings) THEN "settings"
                 ELSE IF BasicOptionSet(k_version) THEN "version"
                 ELSE IF err # NoError THEN "error"
                 ELSE ""
    /\ pc' = IF exited' = "" THEN "returned" ELSE "exit"
    /\ UNCHANGED <<registry, op, argv0, argv, observed, posidx, pairs, err, ncalls>>
    /\ UNCHANGED direct

\* The entry point returns to its caller; its locals are gone.
return ==
    /\ pc = "returned"
    /\ pc' = "idle" /\ op' = "none"
    /\ argv0' = <<>> /\ argv' = <<>> /\ observed' = <<>> /\ posidx' = 0 /\ pairs' = <<>>
    /\ UNCHANGED <<registry, err, exited, ncalls>>
    /\ UNCHANGED direct

\* The state after ui = tui(configfiles=...) and the makeoption/makeposarg calls.
Init ==
    /\ options = ExampleRegistry.options
    /\ option_order = ExampleRegistry.option_order
    /\ abbreviations = ExampleRegistry.abbreviations
    /\ positional_args = ExampleRegistry.positional_args
    /\ configfiles \in ConfigfilesInputs
    /\ \E v \in IgnoreInputs : ignore = _list(v)
    /\ pc = "idle" /\ op = "none"
    /\ argv0 = <<>> /\ argv = <<>> /\ observed = <<>> /\ posidx = 0 /\ pairs = <<>>
    /\ err = NoError /\ exited = "" /\ ncalls = 0
    /\ format = FlagFormat /\ value = PyNone /\ argstr = <<>>

Next ==
    \/ \E a \in ArgvInputs : parseargs(a)
    \/ \E a \in ArgvInputs : launch(a)
    \/ \E files \in FilesInputs, secs \in SectionsInputs : parsefiles(files, secs)
    \/ \E name \in DOMAIN options, argsstr \in StrInputs :
            parsestr(name, argsstr, FileLocation("direct.conf", "myprog"))
    \/ parsefiles_section
    \/ parsefiles_end
    \/ parseoptions
    \/ parsepositionalargs
    \/ parsepositionalargs_end
    \/ launch_end
    \/ return

Spec == Init /\ [][Next]_vars

\* ------------------------------------------- Format.parse, called directly

MaxArgs == 3

t_plus5 == <<"+", "5">>
t_ab == <<"a", " ", "b">>
Formats == {FlagFormat, IntFormat, StringFormat, ReadableFileFormat, IntPairFormat,
            ChoiceFormat}
FormatTokens == {t_5, t_in, t_dash, t_a, t_plus5, t_ab}
ArgsInputs == UNION {[1..n -> FormatTokens] : n \in 0..MaxArgs}

\* format.parse(args) on a list the caller holds.
parse ==
    /\ pc = "idle" /\ op = "none"
    /\ \E r \in {Format_parse(format, argv0)} :
          /\ argv' = r.args
          /\ value' = r.value
          /\ err' = r.err
          /\ pc' = IF r.err # NoError THEN "raised" ELSE "returned"
    /\ op' = "parse"
    /\ UNCHANGED <<registry, format, argstr, argv0, observed, posidx, pairs, exited,
                   ncalls>>

InitFormat ==
    /\ options = ExampleRegistry.options
    /\ option_order = ExampleRegistry.option_order
    /\ abbreviations = ExampleRegistry.abbreviations
    /\ positional_args = ExampleRegistry.positional_args
    /\ configfiles = <<>> /\ ignore = _list(PyNone)
    /\ pc = "idle" /\ op = "none"
    /\ format \in Formats
    /\ argv0 \in ArgsInputs /\ argv = argv0
    /\ observed = <<>> /\ posidx = 0 /\ pairs = <<>>
    /\ err = NoError /\ exited = "" /\ ncalls = 0
    /\ value = PyNone /\ argstr = <<>>

NextFormat == parse

SpecFormat == InitFormat /\ [][NextFormat]_vars

\* ------------------------------------------------------------------ claims

CommandLine == <<"Command line.">>
Range(seq) == {seq[i] : i \in 1..Len(seq)}

\* _parseoptions is about to read a token, and the round it makes of it.
InOptions == pc = "options" /\ argv # <<>>
Round == parseoptions_round(options, abbreviations, observed, argv, CommandLine)

\* The token is --name for a registered name.
IsLong(tok) == startswith(tok, <<"-", "-">>) /\ SliceFrom(tok, 2) \in DOMAIN options
\* The token is an abbreviation block of registered abbreviations.
IsBlock(tok) ==
    /\ Len(tok) >= 2 /\ tok[1] = "-" /\ tok[2] # "-"
    /\ \A i \in 2..Len(tok) : tok[i] \in DOMAIN abbreviations
BlockNames(tok) == [i \in 1..(Len(tok) - 1) |-> abbreviations[tok[i + 1]]]
\* Some character other than the last stands for an Option that takes values.
Malformed(tok) ==
    \E i \in 1..(Len(tok) - 2) : options[BlockNames(tok)[i]].format.nargs # 0
Names(tok) == IF IsLong(tok) THEN <<SliceFrom(tok, 2)>> ELSE BlockNames(tok)
NonRecurring(n) == ~options[n].recurring
\* Some non-recurring Option of names was seen before, in seen or earlier in names.
Repeat(names, seen) ==
    \E i \in 1..Len(names) :
        /\ NonRecurring(names[i])
        /\ names[i] \in Range(seen) \/ \E j \in 1..(i - 1) : names[j] = names[i]
\* The tokens this call has consumed so far.
Consumed == SubSeq(argv0, 2, Len(argv0) - Len(argv))
Finished == {"returned", "raised", "exit"}

\* C1: in the options phase a token naming registered Options (--name, or a
\* well-formed block) raises OptionRecurrenceError exactly when one of its
\* non-recurring Options was already seen in this call, whatever set the
\* Option before the call; what was seen starts empty with each call: every
\* seen Option is named by a token this call consumed, and none is seen twice.
C1_Recurrence ==
    /\ (InOptions /\ (IsLong(argv[1]) \/ (IsBlock(argv[1]) /\ ~Malformed(argv[1])))) =>
          /\ (Round.err.type = "OptionRecurrenceError") <=> Repeat(Names(argv[1]), observed)
          /\ Round.err.type = "OptionRecurrenceError" =>
                /\ Round.err.args[1] \in Range(Names(argv[1]))
                /\ NonRecurring(Round.err.args[1])
    /\ pc = "options" =>
          /\ \A i, j \in 1..Len(observed) : observed[i] = observed[j] => i = j
          /\ \A n \in Range(observed) :
                \E i \in 1..Len(Consumed) :
                    /\ IsLong(Consumed[i]) \/ IsBlock(Consumed[i])
                    /\ n \in Range(Names(Consumed[i]))

C1_Witness ==
    /\ pc = "raised" /\ op = "parseargs"
    /\ argv0 = <<t_prog, t_quiet, t_q>> /\ argv = <<>>
    /\ err = Raise("OptionRecurrenceError", <<k_quiet>>)

\* C2 as stated: after launch has read a config file that sets verbosity and
\* a command line that does not name it, verbosity has the file's value.
C2_FileValue ==
    (/\ op = "launch" /\ ncalls = 1 /\ configfiles = <<"myprog.conf">>
     /\ argv0 = <<t_prog, t_in>> /\ pc \in Finished) =>
        /\ options[k_verbosity].value = PyInt(5)
        /\ options[k_verbosity].location = FileLocation("myprog.conf", "myprog")

\* C3: a token that does not start with "-", or is "-", ends the options phase
\* and stays in argv; from then on the options phase is not entered again and
\* no Option changes, and each token a positional argument takes is the head
\* of argv, stored as it is written.
C3_Stops(tok) == ~startswith(tok, <<"-">>) \/ tok = <<"-">>
C3_NeverResumes ==
    [][/\ (InOptions /\ C3_Stops(argv[1])) =>
            (pc' = "positional" /\ argv' = argv /\ options' = options)
       /\ pc = "positional" =>
            /\ pc' # "options" /\ options' = options /\ observed' = observed
            /\ (posidx' = posidx + 1 /\ argv # <<>>) =>
                    /\ positional_args'[posidx].value = PyStr(argv[1])
                    /\ argv' = Tail(argv)]_vars

C3_Witness ==
    /\ pc = "returned" /\ argv0 = <<t_prog, t_in, t_quiet>>
    /\ positional_args[1].value = PyStr(t_in)
    /\ positional_args[2].value = PyStr(t_quiet)
    /\ options[k_quiet].value = PyBool(FALSE)

\* C4: "--" at the head of argv in the options phase is popped and ends the
\* phase with no Option changed and nothing seen; a positional argument then
\* takes the head of argv as it is written, whatever it looks like.
C4_EndOfOptions ==
    /\ (InOptions /\ argv[1] = t_end) =>
            Round = Locals(options, observed, Tail(argv), NoError, TRUE)
    /\ (pc = "positional" /\ posidx <= Len(positional_args) /\ argv # <<>>) =>
            /\ PositionalArgument_parse(positional_args[posidx], argv).err = NoError
            /\ PositionalArgument_parse(positional_args[posidx], argv).posarg.value
                    = PyStr(argv[1])
            /\ PositionalArgument_parse(positional_args[posidx], argv).argv = Tail(argv)

C4_Witness ==
    /\ pc = "returned" /\ argv0 = <<t_prog, t_end, t_quiet>>
    /\ positional_args[1].value = PyStr(t_quiet)
    /\ positional_args[2].value = PyNone
    /\ options[k_quiet].value = PyBool(FALSE)

\* C5: for a block of registered abbreviations, a character other than the
\* last whose Option takes values raises BadAbbreviationBlock naming the first
\* such character and the block; otherwise no such error is raised, and a
\* block that parses leaves its Options seen in block order and set from the
\* command line, the flags true, and argv without the block and without
\* exactly the nargs tokens of the last character's Option.
C5_FirstBad(tok) ==
    CHOOSE i \in 1..(Len(tok) - 2) :
        /\ options[BlockNames(tok)[i]].format.nargs # 0
        /\ \A j \in 1..(i - 1) : options[BlockNames(tok)[j]].format.nargs = 0
C5_Block ==
    (InOptions /\ IsBlock(argv[1])) =>
        IF Malformed(argv[1])
        THEN Round.err =
                Raise("BadAbbreviationBlock",
                      <<argv[1][C5_FirstBad(argv[1]) + 1], SliceFrom(argv[1], 1),
                        "options that require value arguments must be last in abbreviation blocks">>)
        ELSE /\ Round.err.type # "BadAbbreviationBlock"
             /\ Round.err = NoError =>
                   /\ Round.argv =
                        SubSeq(argv,
                               2 + options[abbreviations[argv[1][Len(argv[1])]]].format.nargs,
                               Len(argv))
                   /\ Round.observed = observed \o SelectSeq(BlockNames(argv[1]), NonRecurring)
                   /\ \A n \in Range(BlockNames(argv[1])) :
                        /\ Round.options[n].location = CommandLine
                        /\ options[n].format.nargs = 0 => Round.options[n].value = PyBool(TRUE)

C5_Witness ==
    /\ pc = "options" /\ argv0 = <<t_prog, t_qv, t_5>> /\ argv = <<>>
    /\ observed = <<k_quiet, k_verbosity>>
    /\ options[k_quiet].value = PyBool(TRUE)
    /\ options[k_verbosity].value = PyInt(5)

\* C6: a block that fails the validation loop raises the validation's error
\* and leaves every Option, and what was seen, as they were.
C6_NoPartialMutation ==
    (/\ InOptions /\ Len(argv[1]) >= 2 /\ argv[1][1] = "-" /\ argv[1][2] # "-"
     /\ ValidateBlock(options, abbreviations, SliceFrom(argv[1], 1), 1) # NoError) =>
        /\ Round.err = ValidateBlock(options, abbreviations, SliceFrom(argv[1], 1), 1)
        /\ Round.options = options
        /\ Round.observed = observed

C6_Witness ==
    /\ pc = "raised" /\ ncalls = 1 /\ argv0 = <<t_prog, t_qvq, t_5>>
    /\ err.type = "BadAbbreviationBlock" /\ err.args[1] = "v"
    /\ options = ExampleRegistry.options
    /\ option_order = ExampleRegistry.option_order

\* C7: Format.parse on a list shorter than nargs raises the wrong-count error
\* with nargs and the length of the list and leaves the list as it was; on a
\* list whose first nargs tokens the parser accepts it succeeds and leaves
\* the list without exactly those tokens.
C7_Valid(f, args) ==
    \A i \in 1..f.nargs : cParser(f, args[i]).ok \/ (f.nargs = 1 /\ args[i] \in f.specials)
C8_Tags(a) == [i \in 1..((Len(a) - 4) \div 2) |-> PyStr(a[3 + 2 * i])]
C8_EndToEnd ==
    (/\ argv0 \in {<<t_prog>> \o a : a \in EndToEndArgvs}
     /\ ncalls = 1
     /\ op = "parseargs"
        \/ (op = "launch" /\ configfiles = <<"plain.conf">> /\ ignore = {k_squeegee})
     /\ pc \in Finished) =>
        /\ pc = "returned" /\ err = NoError /\ argv = <<>>
        /\ options[k_verbosity].value = int(argv0[3]).value
        /\ options[k_tag].value = PyList(C8_Tags(argv0))
        /\ positional_args[1].value = PyStr(argv0[Len(argv0)])
        /\ positional_args[2].value = PyNone

C8_Witness ==
    /\ pc = "returned" /\ op = "parseargs"
    /\ argv0 = <<t_prog, t_v, t_12, t_tag, t_a, t_tag, t_b, t_dash>>
    /\ options[k_verbosity].value = PyInt(12)
    /\ options[k_tag].value = PyList(<<PyStr(t_a), PyStr(t_b)>>)
    /\ positional_args[1].value = PyStr(t_dash)

C10_ConfigThenCommandLine ==
    (/\ op = "launch" /\ configfiles = <<"myprog.conf">>
     /\ argv0 = <<t_prog, t_v, t_5, t_tag, t_a, t_tag, t_b, t_in>>
     /\ pc \in Finished) =>
        options[k_tag].value = PyList(<<PyStr(<<"s", "/", "x">>), PyStr(t_a), PyStr(t_b)>>)

\* -------------------------------- PositionalArgument.parse, called directly

MaxPosargv == 4

\* A PositionalArgument takes a Format that consumes tokens.
PosargFormats == {IntFormat, StringFormat, IntPairFormat}
PosargTokens == {t_5, t_in, t_dash}
PosargvInputs == UNION {[1..n -> PosargTokens] : n \in 0..MaxPosargv}
PosargInputs ==
    {PositionalArgument(k_infile, f, recurring, optional) :
        f \in PosargFormats, recurring \in BOOLEAN, optional \in BOOLEAN}

\* posarg.parse(argv) on a list the caller holds.
posarg_parse ==
    /\ pc = "idle" /\ op = "none"
    /\ \E r \in {PositionalArgument_parse(positional_args[1], argv0)} :
          /\ positional_args' = <<r.posarg>>
          /\ argv' = r.argv
          /\ err' = r.err
          /\ pc' = IF r.err # NoError THEN "raised" ELSE "returned"
    /\ op' = "posarg.parse"
    /\ UNCHANGED <<options, abbreviations, option_order, configfiles, ignore, argv0, observed, posidx, pairs,
                   exited, ncalls>>
    /\ UNCHANGED direct

InitPosarg ==
    /\ options = EmptyRegistry.options
    /\ option_order = EmptyRegistry.option_order
    /\ abbreviations = EmptyRegistry.abbreviations
    /\ \E posarg \in PosargInputs : positional_args = <<posarg>>
    /\ configfiles = <<>> /\ ignore = _list(PyNone)
    /\ pc = "idle" /\ op = "none"
    /\ argv0 \in PosargvInputs /\ argv = argv0
    /\ observed = <<>> /\ posidx = 0 /\ pairs = <<>>
    /\ err = NoError /\ exited = "" /\ ncalls = 0
    /\ format = FlagFormat /\ value = PyNone /\ argstr = <<>>

NextPosarg == posarg_parse

SpecPosarg == InitPosarg /\ [][NextPosarg]_vars

\* ------------------- PositionalArgument.parse, one loop iteration per step

MaxLoop == 4

\* PositionalArgument.__init__ takes any Format, also one with nargs = 0.
LoopInputs ==
    {PositionalArgument(k_infile, f, recurring, optional) :
        f \in PosargFormats \cup {FlagFormat}, recurring \in BOOLEAN, optional \in BOOLEAN}

\* posarg.parse(argv) up to the while loop: the early return for an optional
\* argument, the first format.parse, and self.value = [value] when recurring.
posarg_first ==
    /\ pc = "idle" /\ op = "none"
    /\ \E r \in {IF argv = <<>> /\ positional_args[1].optional
                 THEN PositionalArgument_parse(positional_args[1], argv)
                 ELSE PositionalArgument_finish(positional_args[1],
                        ParseFirstOnly(positional_args[1],
                                       Format_parse(positional_args[1].format, argv)))} :
          /\ positional_args' = <<r.posarg>>
          /\ argv' = r.argv
          /\ err' = r.err
          /\ pc' = IF r.err # NoError THEN "raised"
                   ELSE IF positional_args[1].recurring /\ ~(argv = <<>> /\ positional_args[1].optional)
                   THEN "while" ELSE "returned"
    /\ op' = "posarg.parse"
    /\ UNCHANGED <<options, abbreviations, option_order, configfiles, ignore, argv0, observed, posidx, pairs,
                   exited, ncalls>>
    /\ UNCHANGED direct

\* while argv: self.value.append(self.format.parse(argv)), one test of the
\* condition and one round of the body.
posarg_while ==
    /\ pc = "while"
    /\ (argv # <<>>) => (Len(positional_args[1].value.items) < MaxLoop)
    /\ \E r \in {Format_parse(positional_args[1].format, argv)} :
          IF argv = <<>>
          THEN /\ pc' = "returned"
               /\ UNCHANGED <<positional_args, argv, err>>
          ELSE IF r.err # NoError
          THEN /\ pc' = "raised"
               /\ err' = PositionalArgument_reraise(r.err, positional_args[1])
               /\ argv' = r.args
               /\ UNCHANGED positional_args
          ELSE /\ pc' = "while"
               /\ positional_args' =
                     <<[positional_args[1] EXCEPT
                          !.value = PyList(Append(positional_args[1].value.items, r.value))]>>
               /\ argv' = r.args
               /\ UNCHANGED err
    /\ UNCHANGED <<options, abbreviations, option_order, configfiles, ignore, op, argv0, observed, posidx,
                   pairs, exited, ncalls>>
    /\ UNCHANGED direct

InitLoop ==
    /\ options = EmptyRegistry.options
    /\ option_order = EmptyRegistry.option_order
    /\ abbreviations = EmptyRegistry.abbreviations
    /\ \E posarg \in LoopInputs : positional_args = <<posarg>>
    /\ configfiles = <<>> /\ ignore = _list(PyNone)
    /\ pc = "idle" /\ op = "none"
    /\ argv0 \in PosargvInputs /\ argv = argv0
    /\ observed = <<>> /\ posidx = 0 /\ pairs = <<>>
    /\ err = NoError /\ exited = "" /\ ncalls = 0
    /\ format = FlagFormat /\ value = PyNone /\ argstr = <<>>

NextLoop == posarg_first \/ posarg_while

SpecLoop == InitLoop /\ [][NextLoop]_vars

\* The recurring argument whose parse succeeded on a non-empty list.
RecurringParsed ==
    /\ op = "posarg.parse" /\ pc = "returned"
    /\ positional_args[1].recurring /\ argv0 # <<>>

\* The i-th group of n tokens of args.
Group(args, n, i) == SubSeq(args, (i - 1) * n + 1, i * n)

\* C11 (as amended): when parse of a recurring PositionalArgument succeeds on
\* a non-empty token list, the list is empty afterwards and the value is the
\* list, in order, of what the Format parsed from each successive group of
\* nargs tokens: one value per token only when nargs is 1.
C11_Greedy ==
    RecurringParsed =>
        /\ argv = <<>>
        /\ positional_args[1].value.t = "list"
        /\ Len(positional_args[1].value.items) * positional_args[1].format.nargs = Len(argv0)
        /\ \A i \in 1..Len(positional_args[1].value.items) :
              positional_args[1].value.items[i] =
                Format_parse(positional_args[1].format,
                             Group(argv0, positional_args[1].format.nargs, i)).value

\* Two pairs of tokens parsed by a two-token Format into two values.
C11_Witness ==
    /\ RecurringParsed
    /\ positional_args[1].format = IntPairFormat
    /\ argv0 = <<t_5, t_5, t_5, t_5>>
    /\ argv = <<>>
    /\ positional_args[1].value =
            PyList(<<PyList(<<PyInt(5), PyInt(5)>>), PyList(<<PyInt(5), PyInt(5)>>)>>)

\* C11 as stated: one value per token of the original list.
C11_OnePerToken ==
    RecurringParsed =>
        /\ argv = <<>>
        /\ Len(positional_args[1].value.items) = Len(argv0)

\* ------------------------------------------ tui.makeoption, tui.makeposarg

MaxAdds == 3

\* The checks of Option.__init__: they are on the abbreviation alone (the
\* abbreviations of the model are one character long or None, written "");
\* neither Parameter.__init__ nor Option.__init__ looks at the name.
Option_init(name, fmt, abbreviation, default, recurring, reserved) ==
    IF abbreviation = "-"
    THEN [err |-> Raise("ValueError", <<"Invalid abbreviation (cannot be '-').">>),
          option |-> PyNone]
    ELSE [err |-> NoError,
          option |-> Option(name, fmt, abbreviation, default, recurring, reserved)]

\* PositionalArgument.__init__: no check at all, _name_re is never read.
PositionalArgument_init(name, fmt, recurring, optional) ==
    [err |-> NoError, posarg |-> PositionalArgument(name, fmt, recurring, optional)]

\* The rest of tui.makeoption once the Option constructor answered r.
makeoption_add(reg, r) ==
    IF r.err # NoError THEN [err |-> r.err, reg |-> reg] ELSE addoption(reg, r.option)

\* tui.makeoption(name, fmt, abbreviation): addoption(Option(...))
makeoption(reg, name, fmt, abbreviation) ==
    makeoption_add(reg, Option_init(name, fmt, abbreviation, fmt.default, FALSE, FALSE))

makeposarg_add(reg, r) ==
    IF r.err # NoError THEN [err |-> r.err, reg |-> reg] ELSE addposarg(reg, r.posarg)

\* tui.makeposarg(name, fmt, recurring, optional): addposarg(PositionalArgument(...))
makeposarg(reg, name, fmt, recurring, optional) ==
    makeposarg_add(reg, PositionalArgument_init(name, fmt, recurring, optional))

n_x == <<"x">>
n_bang == <<"a", "b", "!">>
OptionNameInputs == {k_quiet, k_infile, k_help, n_x, n_bang}
AbbreviationInputs == {"q", "h", "-", ""}
PosargNameInputs == {k_infile, k_quiet, n_x}

Registry ==
    [options |-> options, abbreviations |-> abbreviations,
     positional_args |-> positional_args, option_order |-> option_order]

\* ui.makeoption(name, 'Flag', abbreviation); the caller catches the ValueError
\* of a rejected call and goes on.
call_makeoption(name, abbreviation) ==
    /\ pc = "idle" /\ ncalls < MaxAdds
    /\ \E r \in {makeoption(Registry, name, FlagFormat, abbreviation)} :
          /\ options' = r.reg.options
          /\ abbreviations' = r.reg.abbreviations
          /\ positional_args' = r.reg.positional_args
          /\ option_order' = r.reg.option_order
          /\ err' = r.err
    /\ op' = "makeoption"
    /\ argv0' = <<name>>
    /\ ncalls' = ncalls + 1
    /\ UNCHANGED <<configfiles, ignore, pc, argv, observed, posidx, pairs, exited>>
    /\ UNCHANGED direct

\* ui.makeposarg(name, 'String', recurring, optional)
call_makeposarg(name, recurring, optional) ==
    /\ pc = "idle" /\ ncalls < MaxAdds
    /\ \E r \in {makeposarg(Registry, name, StringFormat, recurring, optional)} :
          /\ options' = r.reg.options
          /\ abbreviations' = r.reg.abbreviations
          /\ positional_args' = r.reg.positional_args
          /\ option_order' = r.reg.option_order
          /\ err' = r.err
    /\ op' = "makeposarg"
    /\ argv0' = <<name>>
    /\ ncalls' = ncalls + 1
    /\ UNCHANGED <<configfiles, ignore, pc, argv, observed, posidx, pairs, exited>>
    /\ UNCHANGED direct

\* tui.getparam(key): self.options[key]; else the first positional argument
\* named key; else self.abbreviations[key[1:]], whatever key[0] is; a failed
\* last lookup is the KeyError.
getparam(reg, key) ==
    IF key \in DOMAIN reg.options
    THEN [err |-> NoError, value |-> [t |-> "Option", param |-> reg.options[key]]]
    ELSE IF \E i \in 1..Len(reg.positional_args) : reg.positional_args[i].name = key
    THEN [err |-> NoError,
          value |-> [t |-> "PositionalArgument",
                     param |-> reg.positional_args[
                         CHOOSE i \in 1..Len(reg.positional_args) :
                             /\ reg.positional_args[i].name = key
                             /\ \A j \in 1..(i - 1) : reg.positional_args[j].name # key]]]
    ELSE IF Len(SliceFrom(key, 1)) = 1 /\ SliceFrom(key, 1)[1] \in DOMAIN reg.abbreviations
    THEN [err |-> NoError,
          value |-> [t |-> "Option",
                     param |-> reg.options[reg.abbreviations[SliceFrom(key, 1)[1]]]]]
    ELSE [err |-> Raise("KeyError", <<"no such option or positional argument">>),
          value |-> PyNone]

\* The order in which a dict hands out its entries: arbitrary, and the same
\* for keys() and values() of an unchanged dict.
RECURSIVE DictOrder(_)
DictOrder(S) ==
    IF S = {} THEN <<>>
    ELSE <<CHOOSE x \in S : TRUE>> \o DictOrder(S \ {CHOOSE x \in S : TRUE})

\* tui.keys(): self.options.keys() + [p.name for p in self.positional_args]
keys(reg) ==
    DictOrder(DOMAIN reg.options) \o
    [i \in 1..Len(reg.positional_args) |-> reg.positional_args[i].name]

\* tui.values(): self.options.values(), the Option objects themselves, and
\* then the value of every positional argument.
values(reg) ==
    [i \in 1..Cardinality(DOMAIN reg.options) |->
        [t |-> "Option", param |-> reg.options[DictOrder(DOMAIN reg.options)[i]]]] \o
    [i \in 1..Len(reg.positional_args) |-> reg.positional_args[i].value]

\* tui.items(): (p.name, p.value) for every Option and positional argument.
items(reg) ==
    [i \in 1..Cardinality(DOMAIN reg.options) |->
        <<reg.options[DictOrder(DOMAIN reg.options)[i]].name,
          reg.options[DictOrder(DOMAIN reg.options)[i]].value>>] \o
    [i \in 1..Len(reg.positional_args) |->
        <<reg.positional_args[i].name, reg.positional_args[i].value>>]

\* tui.dict(): dict(self.items()), a later pair replacing an earlier one of
\* the same name.
dict(reg) ==
    [n \in {items(reg)[i][1] : i \in 1..Len(items(reg))} |->
        items(reg)[CHOOSE i \in 1..Len(items(reg)) :
                        /\ items(reg)[i][1] = n
                        /\ \A j \in (i + 1)..Len(items(reg)) : items(reg)[j][1] # n][2]]

n_xq == <<"x", "q">>
KeyInputs == {k_quiet, k_infile, k_help, n_x, t_q, t_h, n_xq, <<"q">>, <<>>, k_nope}

\* ui.getparam(key), the last call made on the tui.
call_getparam(key) ==
    /\ pc = "idle"
    /\ \E r \in {getparam(Registry, key)} :
          /\ value' = r.value
          /\ err' = r.err
          /\ pc' = IF r.err # NoError THEN "raised" ELSE "returned"
    /\ op' = "getparam"
    /\ argv0' = <<key>>
    /\ UNCHANGED <<registry, argv, observed, posidx, pairs, exited, ncalls>>
    /\ UNCHANGED <<format, argstr>>

\* ui = tui(): the four basic options, no positional arguments.
InitRegistry ==
    /\ options = tui_init.options
    /\ option_order = tui_init.option_order
    /\ abbreviations = tui_init.abbreviations
    /\ positional_args = tui_init.positional_args
    /\ configfiles = <<>> /\ ignore = _list(PyNone)
    /\ pc = "idle" /\ op = "none"
    /\ argv0 = <<>> /\ argv = <<>> /\ observed = <<>> /\ posidx = 0 /\ pairs = <<>>
    /\ err = NoError /\ exited = "" /\ ncalls = 0
    /\ format = FlagFormat /\ value = PyNone /\ argstr = <<>>

NextRegistry ==
    \/ \E name \in OptionNameInputs, abbreviation \in AbbreviationInputs :
            call_makeoption(name, abbreviation)
    \/ \E name \in PosargNameInputs, recurring \in BOOLEAN, optional \in BOOLEAN :
            call_makeposarg(name, recurring, optional)
    \/ \E key \in KeyInputs : call_getparam(key)

SpecRegistry == InitRegistry /\ [][NextRegistry]_vars

\* C12: after any sequence of makeoption and makeposarg calls, accepted or
\* rejected, on a tui that started without positional arguments, every
\* required positional argument comes before every optional one and only the
\* last positional argument can be recurring (so at most one is).
C12_Ordering ==
    /\ \A i \in 1..Len(positional_args), j \in 1..Len(positional_args) :
          (i < j /\ positional_args[i].optional) => positional_args[j].optional
    /\ \A i \in 1..Len(positional_args) :
          positional_args[i].recurring => i = Len(positional_args)

\* A required, then an optional recurring argument registered, and the add
\* that came after them rejected.
C12_Witness ==
    /\ op = "makeposarg"
    /\ Len(positional_args) = 2
    /\ ~positional_args[1].optional
    /\ positional_args[2].optional /\ positional_args[2].recurring
    /\ err = Raise("ValueError", <<"recurring positional arguments must be last">>)

\* C13 as stated: no two registered Parameters share a name, whatever their
\* kinds, and no two Options share an abbreviation.
C13_Unique ==
    /\ \A i \in 1..Len(positional_args), j \in 1..Len(positional_args) :
          i # j => positional_args[i].name # positional_args[j].name
    /\ \A i \in 1..Len(positional_args) : positional_args[i].name \notin DOMAIN options
    /\ \A n \in DOMAIN options, m \in DOMAIN options :
          (n # m /\ options[n].abbreviation # "") =>
                options[n].abbreviation # options[m].abbreviation

\* name matches [A-Za-z0-9][\w-]*[A-Za-z0-9] in full.
Alnum == Range(Upper) \cup Range(Lower) \cup Digits
NameOk(name) ==
    /\ Len(name) >= 2
    /\ name[1] \in Alnum /\ name[Len(name)] \in Alnum
    /\ \A i \in 2..(Len(name) - 1) : name[i] \in Alnum \cup {"_", "-"}

\* C14 as stated: creating or registering a Parameter whose name does not
\* match the pattern in full fails with an error.
C14_InvalidNameRejected ==
    (op \in {"makeoption", "makeposarg"} /\ ~NameOk(argv0[1])) => err # NoError

\* parsefiles is about to read the (file, section) pair at the head of pairs,
\* and what reading it does when no key of the section is unknown.
AtPair == pc = "files" /\ pairs # <<>>
PairParser == parser_read(pairs[1][1])
PairRead == ReadSection(options, PairParser, pairs[1][1], pairs[1][2], <<>>)
PairKnown ==
    /\ AtPair /\ has_section(PairParser, pairs[1][2])
    /\ Unknown(options, PairParser, pairs[1][2]) = {}
\* The keys of the section at the head of pairs that name an Option.
PairOptionKeys == parser_options(PairParser, pairs[1][2]) \cap DOMAIN options
\* options[k] as Option.parsestr leaves it on the text raw read from the pair.
Applied(k, raw) ==
    Option_parsestr(options[k], raw, k, FileLocation(pairs[1][1], pairs[1][2])).option

\* C15 as stated: in a parsed section a key that names no Option, is not
\* ignored and is referenced by no value raises the unknown-option error; a
\* key referenced as %(key)s raises none, and when it names a non-reserved
\* Option its value is applied all the same.
C15_UnknownKeys ==
    /\ (AtPair /\ has_section(PairParser, pairs[1][2])) =>
          \A unused \in Unknown(options, PairParser, pairs[1][2]) :
              ReadSection(options, PairParser, pairs[1][1], pairs[1][2], unused).err.type
                    = "InvalidOption"
    /\ PairKnown =>
          \A k \in PairOptionKeys \ unusedoptions(PairParser, pairs[1][2]) :
              ~options[k].reserved =>
                /\ PairRead.err.type # "InvalidOption"
                /\ PairRead.options[k] =
                        Applied(k, parser_get(PairParser, pairs[1][2], k).value)

\* C16 as stated: a key naming a reserved Option raises ReservedOptionError
\* and leaves the Option as it was; a key naming a non-reserved Option raises
\* no such error and is applied through Option.parsestr.
C16_Reserved ==
    PairKnown =>
        IF \E k \in PairOptionKeys : options[k].reserved
        THEN /\ PairRead.err.type = "ReservedOptionError"
             /\ \A k \in PairOptionKeys : options[k].reserved => PairRead.options[k] = options[k]
        ELSE /\ PairRead.err.type # "ReservedOptionError"
             /\ \A k \in PairOptionKeys :
                    PairRead.options[k] =
                        Applied(k, parser_get(PairParser, pairs[1][2], k).value)

\* C17 as stated: the keys of [DEFAULT] are applied for each requested
\* section, the section's own value winning, whether or not the file has
\* the requested section.
C17_Default ==
    (AtPair /\ (has_section(PairParser, pairs[1][2]) => PairKnown)) =>
        \A k \in DOMAIN PairParser.defaults \cap DOMAIN options :
            (has_section(PairParser, pairs[1][2]) =>
                    k \notin DOMAIN PairParser.sections[pairs[1][2]]) =>
                PairRead.options[k] = Applied(k, PairParser.defaults[k])

\* The literals a config file can give a Flag, in several spellings.
TrueLiterals ==
    {<<"1">>, <<"y", "e", "s">>, <<"Y", "e", "s">>, <<"Y", "E", "S">>,
     <<"t", "r", "u", "e">>, <<"T", "r", "u", "e">>, <<"o", "n">>, <<"O", "N">>, <<"o", "N">>}
FalseLiterals ==
    {<<"0">>, <<"n", "o">>, <<"N", "o">>, <<"f", "a", "l", "s", "e">>,
     <<"F", "A", "L", "S", "E">>, <<"o", "f", "f">>, <<"O", "f", "f">>, <<"O", "F", "F">>}
OtherLiterals ==
    {<<"m", "a", "y", "b", "e">>, <<"x">>, <<"2">>, <<"y">>, <<"t">>, <<"o", "n", "e">>}

\* What the Option n must be after Option.parsestr answered r on literal s.
FlagSet(n, s, r) ==
    IF s \in TrueLiterals
    THEN r.err = NoError /\ r.option.value = PyBool(TRUE)
    ELSE IF s \in FalseLiterals
    THEN r.err = NoError /\ r.option.value = PyBool(FALSE)
    ELSE r.err.type = "BadArgument" /\ r.option = options[n]

ArgstrInputs ==
    {<<>>, <<"y", "e", "s">>, <<"Y", "e", "s", " ", "n", "o">>, <<"O", "F", "F">>,
     <<"m", "a", "y", "b", "e">>, <<"5">>, <<"5", " ", "5">>, <<"5", " ", "5", " ", "5">>,
     <<"5", " ", "#", "x">>, <<"#", "x">>, <<"i", "n">>, <<"-", " ", "5">>,
     <<"'", "a", " ", "b", "'">>, <<"'">>}

\* format.parsestr(argstr)
format_parsestr ==
    /\ pc = "idle" /\ op = "none"
    /\ \E r \in {Format_parsestr(format, argstr)} :
          /\ value' = r.value
          /\ err' = r.err
          /\ pc' = IF r.err # NoError THEN "raised" ELSE "returned"
    /\ op' = "format.parsestr"
    /\ UNCHANGED <<registry, format, argstr, argv0, argv, observed, posidx, pairs, exited,
                   ncalls>>

InitParsestr ==
    /\ options = ExampleRegistry.options
    /\ option_order = ExampleRegistry.option_order
    /\ abbreviations = ExampleRegistry.abbreviations
    /\ positional_args = ExampleRegistry.positional_args
    /\ configfiles = <<>> /\ ignore = _list(PyNone)
    /\ pc = "idle" /\ op = "none"
    /\ format \in Formats
    /\ argstr \in ArgstrInputs
    /\ argv0 = <<>> /\ argv = <<>>
    /\ observed = <<>> /\ posidx = 0 /\ pairs = <<>>
    /\ err = NoError /\ exited = "" /\ ncalls = 0
    /\ value = PyNone

NextParsestr == format_parsestr

SpecParsestr == InitParsestr /\ [][NextParsestr]_vars

\* format.parsestr was called on a string that shlex could split.
ParsestrDone == op = "format.parsestr" /\ shlex_split(argstr).ok
Given == Len(shlex_split(argstr).tokens)

\* C19 as stated, for the string form: a Format with nargs 0 takes exactly
\* one token, and a string of no token or of two or more raises the
\* wrong-argument-count error.
C19_ExactlyOne ==
    (ParsestrDone /\ format.nargs = 0 /\ Given # 1) =>
        err.type = "BadNumberOfArguments"

\* C20 as stated: for a Format with nargs = N >= 1, parsestr on a string of
\* k # N tokens raises the wrong-count error with required N and given k,
\* and on N tokens it answers what parse answers on them.
C20_Count ==
    (ParsestrDone /\ format.nargs >= 1) =>
        IF Given # format.nargs
        THEN err = Raise("BadNumberOfArguments", <<format.nargs, Given>>)
        ELSE /\ err = Format_parse(format, shlex_split(argstr).tokens).err
             /\ value = Format_parse(format, shlex_split(argstr).tokens).value

\* What the claim has a raw token contribute: the special literal itself, or
\* what the coercer makes of the token.
Contribution(tok) ==
    IF tok \in format.specials THEN PyStr(tok) ELSE cParser(format, tok).value

\* Format.parse ran on a list whose first nargs tokens are each a special
\* literal or acceptable to the coercer.
SpecialsParsed ==
    /\ op = "parse" /\ format.nargs >= 1 /\ Len(argv0) >= format.nargs
    /\ \A i \in 1..format.nargs :
          argv0[i] \in format.specials \/ cParser(format, argv0[i]).ok

\* C21 as stated: a special literal is accepted without the coercer being
\* applied to it and contributes exactly one element, so a parse with
\* nargs = N returns exactly N values, also when N > 1.
C21_Specials ==
    SpecialsParsed =>
        /\ err = NoError
        /\ format.nargs = 1 => value = Contribution(argv0[1])
        /\ format.nargs > 1 =>
              /\ value.t = "list"
              /\ Len(value.items) = format.nargs
              /\ \A i \in 1..format.nargs : value.items[i] = Contribution(argv0[i])

\* ------------------------------- tui._parsepositionalargs, called directly

\* The lists of one or two positional arguments that addposarg accepts, over
\* a one-token and a two-token Format.
FirstPosargs ==
    {PositionalArgument(k_infile, f, FALSE, optional) :
        f \in {StringFormat, IntPairFormat}, optional \in BOOLEAN}
LastPosargs ==
    {PositionalArgument(k_outfile, f, recurring, optional) :
        f \in {StringFormat, IntPairFormat}, recurring \in BOOLEAN, optional \in BOOLEAN}
PositionalInputs ==
    {<<p>> : p \in LastPosargs} \cup
    UNION {{<<p, q>> : q \in {l \in LastPosargs : p.optional => l.optional}} :
                p \in FirstPosargs}

\* ui._parsepositionalargs(argv) on a list the caller holds.
InitPositional ==
    /\ options = EmptyRegistry.options
    /\ option_order = EmptyRegistry.option_order
    /\ abbreviations = EmptyRegistry.abbreviations
    /\ positional_args \in PositionalInputs
    /\ configfiles = <<>> /\ ignore = _list(PyNone)
    /\ pc = "positional" /\ op = "_parsepositionalargs"
    /\ argv0 \in PosargvInputs /\ argv = argv0
    /\ observed = <<>> /\ posidx = 1 /\ pairs = <<>>
    /\ err = NoError /\ exited = "" /\ ncalls = 0
    /\ format = FlagFormat /\ value = PyNone /\ argstr = <<>>

NextPositional ==
    \/ parsepositionalargs
    \/ parsepositionalargs_end

SpecPositional == InitPositional /\ [][NextPositional]_vars

\* The number of tokens the positional arguments from the i-th on accept.
RECURSIVE Accepted(_, _)
Accepted(posargs, i) ==
    IF i > Len(posargs) THEN 0 ELSE posargs[i].format.nargs + Accepted(posargs, i + 1)

\* C22 as stated: when tokens remain after every PositionalArgument has
\* parsed, the too-many-arguments error is raised and, without a recurring
\* positional, it reports as declared the number of tokens the positionals
\* accept and as given the number of tokens handed to the positional phase.
C22_Counts ==
    (/\ op = "_parsepositionalargs" /\ pc # "positional"
     /\ posidx > Len(positional_args) /\ argv # <<>>
     /\ \A i \in 1..Len(positional_args) : ~positional_args[i].recurring) =>
        /\ pc = "raised" /\ err.type = "BadNumberOfArguments"
        /\ err.args[2] = Accepted(positional_args, 1)
        /\ err.args[3] = Len(argv0)

\* C23 as stated, for PositionalArgument.parse on an empty token list: an
\* optional argument gets None, or the empty list when recurring, with no
\* error and nothing consumed; a required one raises the
\* wrong-argument-count error under the argument's display name.
C23_EmptyList ==
    (op = "posarg.parse" /\ argv0 = <<>>) =>
        IF positional_args[1].optional
        THEN /\ err = NoError /\ argv = <<>>
             /\ positional_args[1].value =
                    IF positional_args[1].recurring THEN PyList(<<>>) ELSE PyNone
        ELSE err = Raise("BadNumberOfArguments",
                         <<positional_args[1].displayname,
                           positional_args[1].format.nargs, 0>>)

\* The abbreviation the documentation gives each basic option.
Documented(n) ==
    CASE n = k_help -> t_h [] n = k_HELP -> t_H [] n = k_version -> t_V
      [] n = k_settings -> t_S

\* C28 as stated: on a tui created with default arguments, -h, -H, -V and -S
\* are accepted and set help, HELP, version and settings, exactly as --help,
\* --HELP, --version and --settings do.
C28_BasicAbbreviations ==
    \A n \in {k_help, k_HELP, k_version, k_settings} :
        (/\ op = "parseargs" /\ ncalls = 1 /\ pc # "options"
         /\ argv0 \in {<<t_prog, Documented(n)>>, <<t_prog, <<"-", "-">> \o n>>}) =>
            /\ options[n].value = PyBool(TRUE)
            /\ options[n].location = CommandLine

\* C29 as stated: on a tui created with ignore=None no key of a parsed config
\* section raises the unknown-option error, whatever its name.
C29_IgnoreNone ==
    (ignore = _list(PyNone) /\ op = "parsefiles") => err.type # "InvalidOption"

\* C30: resolution stops at the first error.  Once an entry point has raised,
\* no Option and no PositionalArgument changes and no parsing phase is entered
\* again; and launch enters the command line only from the end of a config
\* pass that read every (file, section) pair without error, so after a
\* ParseError of parsefiles no argv token changes a parameter.
C30_StopsAtFirstError ==
    [][/\ (pc # "idle" /\ err # NoError) =>
            /\ options' = options /\ positional_args' = positional_args
            /\ pc' \notin {"files", "options", "positional"}
       /\ (op = "launch" /\ pc # "options" /\ pc' = "options") =>
            /\ pc = "files" /\ pairs = <<>> /\ err = NoError]_vars

\* launch on -q after the config pass raised the unknown-option error: quiet
\* is still unset when launch exits on the error.
C30_Witness ==
    /\ op = "launch" /\ exited = "error"
    /\ err.type = "InvalidOption" /\ pairs # <<>>
    /\ argv0 = <<t_prog, t_q>>
    /\ options[k_quiet].value = PyBool(FALSE)
    /\ options[k_quiet].location = <<"Builtin default.">>

\* The errors a Format raises on input it rejects.
Rejections == {"BadNumberOfArguments", "BadArgument"}
\* The name an Option's error carries, and the Option that name stands for.
UsedName(e) == IF e.type = "BadNumberOfArguments" THEN e.args[1] ELSE e.args[2]
OptionUsed(used) == IF startswith(used, <<"-">>) THEN abbreviations[used[2]] ELSE used
\* The Option's error e is the Format's error fe under the name used.
Carries(e, fe, used) ==
    /\ fe.type = e.type
    /\ e.args = IF fe.type = "BadNumberOfArguments"
                THEN <<used, fe.args[1], fe.args[2]>>
                ELSE <<fe.args[1], used, fe.args[2]>>
\* The token at the head of argv names the Option n as used.
NamedAs(n, used) ==
    IF IsLong(argv[1]) THEN used = n /\ argv[1] = <<"-", "-">> \o n
    ELSE /\ used = <<"-", options[n].abbreviation>>
         /\ \E i \in 2..Len(argv[1]) : argv[1][i] = options[n].abbreviation

Source ==
    IF pc = "options" THEN CommandLine
    ELSE IF pc = "files" THEN FileLocation(pairs[1][1], pairs[1][2])
    ELSE FileLocation("direct.conf", "myprog")

ui2_options == [n \in DOMAIN tui_init.options |-> options[n]]

\* C26: nothing is parsed through the second instance, so every parameter
\* read through it has the value and the location its constructor left,
\* whatever is parsed through the first instance.
C26_NotShared ==
    \A n \in DOMAIN ui2_options :
        /\ ui2_options[n].value = tui_init.options[n].value
        /\ ui2_options[n].location = tui_init.options[n].location

\* C27: getparam(key) returns the Option named key; else the positional
\* argument named key; else, only for a key that is "-" and a registered
\* abbreviation, the Option with that abbreviation; every other key, and so
\* every key that does not start with "-" and names nothing, is a KeyError.
C27_Lookup ==
    (op = "getparam") =>
        \E key \in {argv0[1]} :
            IF key \in DOMAIN options
            THEN err = NoError /\ value.t = "Option" /\ value.param.name = key
            ELSE IF \E i \in 1..Len(positional_args) : positional_args[i].name = key
            THEN /\ err = NoError /\ value.t = "PositionalArgument"
                 /\ value.param.name = key
            ELSE IF /\ Len(key) = 2 /\ key[1] = "-"
                    /\ \E n \in DOMAIN options : options[n].abbreviation = key[2]
            THEN /\ err = NoError /\ value.t = "Option"
                 /\ value.param.abbreviation = key[2]
            ELSE err.type = "KeyError"

\* The tokens the last Format.parse call took from its list.
Taken == SubSeq(argv0, 1, format.nargs)

\* C31: when parse has returned the value of valid tokens none of which is a
\* special literal, rendering the value with strvalue gives the tokens back:
\* read as a line of quoted words, the rendering is the token list.
C31_RoundTrip ==
    (/\ op = "parse" /\ pc = "returned" /\ format.nargs >= 1
     /\ \A i \in 1..format.nargs : argv0[i] \notin format.specials) =>
        /\ shlex_split(strvalue(format, value)).ok
        /\ shlex_split(strvalue(format, value)).tokens = Taken

\* C32: items() and dict() hold one entry for every registered option and
\* positional argument, its name with its current value; keys() and values()
\* have the same length and pairing them entry by entry gives items(), so
\* values() holds the current values in the order of keys().
C32_ReadApi ==
    /\ Len(items(Registry)) = Cardinality(DOMAIN options) + Len(positional_args)
    /\ Cardinality(DOMAIN dict(Registry)) = Len(items(Registry))
    /\ \A i \in 1..Len(items(Registry)) :
          dict(Registry)[items(Registry)[i][1]] = items(Registry)[i][2]
    /\ Len(keys(Registry)) = Len(values(Registry))
    /\ \A i \in 1..Len(keys(Registry)) :
          <<keys(Registry)[i], values(Registry)[i]>> = items(Registry)[i]

\* C38: a makeoption or makeposarg call that is rejected raises a ValueError,
\* which is no ParseError, and leaves self.options, self.abbreviations,
\* self.option_order and self.positional_args as they were before the call.
C38_RejectedUnchanged ==
    [][(/\ pc = "idle"
        /\ op' \in {"makeoption", "makeposarg"}
        /\ err' # NoError)
       => (/\ err'.type = "ValueError"
           /\ err'.type \notin ParseErrors
           /\ options' = options
           /\ abbreviations' = abbreviations
           /\ option_order' = option_order
           /\ positional_args' = positional_args)]_vars

\* makeoption('x', ...) accepted once and then rejected for the name in use.
C38_Witness ==
    /\ op = "makeoption" /\ argv0 = <<n_x>> /\ ncalls >= 2
    /\ err = Raise("ValueError", <<"name already in use">>)
    /\ option_order = Append(tui_init.option_order, n_x)
    /\ n_x \in DOMAIN options

\* C33: whatever parseargs raises is one of the ParseError classes; so a
\* block with a character that is no registered abbreviation, last or not,
\* ends in a ParseError.
C33_OnlyParseErrors ==
    (op = "parseargs" /\ err # NoError) => err.type \in ParseErrors

\* C34: every round of the while loop of PositionalArgument.parse that goes
\* on to a next round has taken at least one token from the list, so the
\* loop ends after at most as many rounds as there are tokens.
C34_Progress ==
    [][(pc = "while" /\ pc' = "while") => Len(argv') < Len(argv)]_vars

\* The value of the parameter after is what its Format parses from tok: the
\* value itself, or for a recurring option the list before with it appended.
Stored(after, before, tok) ==
    IF before.recurring
    THEN after.value = PyList(Append(before.value.items, cParser(before.format, tok).value))
    ELSE after.value = cParser(before.format, tok).value

\* The last of the options the token at the head of argv names: the only one
\* that may take arguments.
LastNamed == Names(argv[1])[Len(Names(argv[1]))]

\* C35: every successful step of parseargs takes a prefix of the token list
\* and gives it to one parameter.  A round of the options loop that goes on
\* takes the option token and the nargs tokens after it, which become the
\* value of the last option the token names, every other option it names
\* taking none; a round that ends the loop takes the "--" marker or nothing
\* and changes no option.  A positional argument takes the first token left
\* as its value, or nothing when none is left.  parseargs returns only with
\* the list empty.  So every token is used once, in command-line order.
C35_Conservation ==
    [][/\ (/\ pc = "options" /\ argv # <<>> /\ err' = NoError /\ pc' = "options") =>
            /\ IsLong(argv[1]) \/ IsBlock(argv[1])
            /\ argv' = SliceFrom(argv, 1 + options[LastNamed].format.nargs)
            /\ (options[LastNamed].format.nargs = 1) =>
                    Stored(options'[LastNamed], options[LastNamed], argv[2])
            /\ \A i \in 1..(Len(Names(argv[1])) - 1) :
                    options[Names(argv[1])[i]].format.nargs = 0
            /\ \A n \in DOMAIN options \ Range(Names(argv[1])) : options'[n] = options[n]
            /\ positional_args' = positional_args
       /\ (/\ pc = "options" /\ argv # <<>> /\ err' = NoError /\ pc' = "positional") =>
            /\ argv' = IF argv[1] = t_end THEN Tail(argv) ELSE argv
            /\ options' = options /\ positional_args' = positional_args
       /\ (/\ pc = "positional" /\ posidx <= Len(positional_args) /\ err' = NoError) =>
            /\ argv' = IF argv = <<>> THEN argv ELSE Tail(argv)
            /\ (argv # <<>>) =>
                    Stored(positional_args'[posidx], positional_args[posidx], argv[1])
            /\ \A i \in 1..Len(positional_args) :
                    (i # posidx) => (positional_args'[i] = positional_args[i])
            /\ options' = options
       /\ (/\ pc = "positional" /\ pc' \in {"returned", "checkhelp"} /\ err' = NoError) =>
            (argv = <<>>)]_vars

\* -v 5 --tag a --tag b in: seven tokens, all used, the tags in order.
C35_Witness ==
    /\ op = "parseargs" /\ pc = "returned" /\ err = NoError /\ argv = <<>>
    /\ argv0 = <<t_prog, t_v, t_5, t_tag, t_a, t_tag, t_b, t_in>>
    /\ options[k_verbosity].value = PyInt(5)
    /\ options[k_tag].value = PyList(<<PyStr(t_a), PyStr(t_b)>>)
    /\ positional_args[1].value = PyStr(t_in)
    /\ positional_args[2].value = PyNone

\* C37: when the last positional argument is recurring and every positional
\* argument has parsed, no token is left, so the check after the loop of
\* _parsepositionalargs raises nothing and the call returns: the
\* too-many-arguments error, in either wording, is not raised.
C37_NeverTooMany ==
    [][(/\ pc = "positional" /\ posidx > Len(positional_args)
        /\ positional_args[Len(positional_args)].recurring) =>
            (argv = <<>> /\ err' = NoError /\ pc' = "returned")]_vars

\* A required String argument and a recurring one after it, four tokens.
C37_Witness ==
    /\ op = "_parsepositionalargs" /\ pc = "returned" /\ err = NoError
    /\ Len(positional_args) = 2 /\ positional_args[2].recurring
    /\ Len(argv0) = 4 /\ argv = <<>>
    /\ positional_args[1].value = PyStr(argv0[1])
    /\ positional_args[2].value = PyList(<<PyStr(argv0[2]), PyStr(argv0[3]), PyStr(argv0[4])>>)

\* C36: when the section parsefiles is about to read holds a key that is
\* referenced by no value, names no Option and is not ignored, the step
\* raises InvalidOption for such a key and leaves every Option as it was
\* before the section: nothing of the section is applied and nothing set
\* earlier is undone.
C36_CheckFirst ==
    [][(/\ AtPair /\ has_section(PairParser, pairs[1][2])
        /\ Unknown(options, PairParser, pairs[1][2]) # {}) =>
            /\ err'.type = "InvalidOption"
            /\ err'.args[1] \in Unknown(options, PairParser, pairs[1][2])
            /\ options' = options]_vars

\* ref.conf with nothing ignored: squeegee is unknown, and verbosity, a key
\* of the same section, was not applied.
C36_Witness ==
    /\ op = "parsefiles" /\ pc = "raised"
    /\ err.type = "InvalidOption" /\ err.args[1] = k_squeegee
    /\ pairs # <<>> /\ pairs[1] = <<"ref.conf", "myprog">>
    /\ k_verbosity \in parser_options(parser_read("ref.conf"), "myprog")
    /\ options[k_verbosity] = ExampleRegistry.options[k_verbosity]

\* The basic options in the order launch looks at them, with the page each
\* prints, and the first of them that is set (0 when none is).
BasicOrder == <<k_help, k_HELP, k_settings, k_version>>
BasicPages == <<"help", "longhelp", "settings", "version">>
FirstSet ==
    IF \E i \in 1..4 : options[BasicOrder[i]].value = PyBool(TRUE)
    THEN CHOOSE i \in 1..4 :
            /\ options[BasicOrder[i]].value = PyBool(TRUE)
            /\ \A j \in 1..(i - 1) : options[BasicOrder[j]].value # PyBool(TRUE)
    ELSE 0

====
